---- MODULE Spec2Model ----
(***************************************************************************)
(* A model of the ambient code-quality coordinator (kimi-swarm):           *)
(*   - the coordinator cycle (src/ambient/coordinator.py): throttle,       *)
(*     kill-switch, dry-run, clean-worktree gate, risk gate, approval,     *)
(*     patch / verify / rollback / commit under write_lock, and the        *)
(*     review-worktree mode;                                               *)
(*   - the git working tree as the patch engine and the VCS adapter see it *)
(*     (src/ambient/salvaged/git_ops.py);                                  *)
(*   - the sandbox runner's admission check                                *)
(*     (src/ambient/salvaged/sandbox.py).                                  *)
(***************************************************************************)
EXTENDS Integers, Sequences, FiniteSets, TLC

(***************************************************************************)
(* Bounds of the model and configuration values chosen small.              *)
(***************************************************************************)
MaxProposals == 2        \* proposals one cycle's agents return, at most
MaxCycles == 2           \* cycles one coordinator runs one after the other, at most
FailureRateWindow == 2   \* control_plane.failure_rate_window
MinFailures == 2         \* control_plane.min_failures_before_disable
MaxPerHour == 2          \* control_plane.max_proposals_per_hour, when limited
MaxParallel == 1         \* review_worktree.max_parallel
MaxArgv == 2             \* elements of an argv, at most
TickSeconds == 1800      \* the clock advances in steps of this many seconds
MaxTime == 5400          \* the clock stops here
MaxQueue == 2            \* monitoring.max_queue_size, when positive
DebounceSeconds == 2     \* monitoring.debounce_seconds
MaxFsEvents == 3         \* notifications the observer delivers, at most
MaxWatchTime == 3        \* the watcher's clock stops here
MaxFileLines == 2        \* lines of the patched file, at most
MaxHunkLines == 2        \* lines of a hunk, at most
MaxApplies == 2          \* calls of the patch engine in a row, at most
MaxApprovedLen == 3      \* characters of an approved string, at most
MaxPollinate == 3        \* proposals handed to cross-pollination, at most
MaxItems == 2            \* items of the model's JSON array, at most
MaxRetry == 3            \* AMBIENT_RETRY_MAX, at most
MaxGood == 2             \* steps of the patch engine that succeed, at most

(***************************************************************************)
(* Settings read from the configuration.                                   *)
(***************************************************************************)
VARIABLES
    risk_policy,          \* config.risk_policy: auto_apply and require_approval
    agents_enabled,       \* the class names of self.agents, in order
    control_plane         \* config.control_plane: the two backoff settings

policyVars == << risk_policy, agents_enabled, control_plane >>

(***************************************************************************)
(* Program constants.                                                      *)
(***************************************************************************)
ThresholdNum == 1        \* failure_rate_threshold = 0.5 = 1/2
ThresholdDen == 2
WindowSeconds == 3600    \* rolling window of proposal_timestamps
BackoffBase == 30        \* control_plane.backoff_base_seconds, by default
BackoffMax == 600        \* control_plane.backoff_max_seconds, by default
FileChangeLimit == 10    \* risk_policy.file_change_limit
LocChangeLimit == 500    \* risk_policy.loc_change_limit

Cycles == {1, 2}         \* cycles that may run concurrently on one coordinator

Min(a, b) == IF a <= b THEN a ELSE b
Max(a, b) == IF a >= b THEN a ELSE b
Abs(n) == IF n < 0 THEN -n ELSE n

(***************************************************************************)
(* Proposals (types.py) and the risk evaluator (risk.py).                  *)
(* A path and a tag are sequences of characters, so that the evaluator's   *)
(* substring and lower-casing tests are computed, not assumed.             *)
(***************************************************************************)
RiskLevels == {"low", "medium", "high", "critical"}

MainPy == <<"m", "a", "i", "n", ".", "p", "y">>
AuthPy == <<"s", "r", "c", "/", "A", "u", "t", "h", ".", "p", "y">>
UtilPy == <<"u", "t", "i", "l", ".", "p", "y">>

TagStyle == <<"s", "t", "y", "l", "e">>
TagRefactor == <<"r", "e", "f", "a", "c", "t", "o", "r">>
TagSecurity == <<"S", "e", "c", "u", "r", "i", "t", "y">>

\* The proposals the agents of this model may return.
ProposalPool ==
    { [id |-> 1, agent |-> "StyleEnforcer", risk_level |-> "low",
       files_touched |-> <<MainPy>>, estimated_loc_change |-> 2,
       tags |-> <<TagStyle>>],
      [id |-> 2, agent |-> "RefactorArchitect", risk_level |-> "medium",
       files_touched |-> <<MainPy, UtilPy>>, estimated_loc_change |-> -500,
       tags |-> <<TagRefactor>>],
      [id |-> 3, agent |-> "SecurityGuardian", risk_level |-> "critical",
       files_touched |-> <<AuthPy>>, estimated_loc_change |-> 4,
       tags |-> <<TagSecurity>>],
      [id |-> 4, agent |-> "StyleEnforcer", risk_level |-> "low",
       files_touched |-> <<UtilPy>>, estimated_loc_change |-> -501,
       tags |-> << >>] }

ProposalIds == {p.id : p \in ProposalPool}
ProposalById(i) == CHOOSE p \in ProposalPool : p.id = i

\* str.lower() on the characters that occur in the model
LowerChar(ch) ==
    CASE ch = "A" -> "a"
      [] ch = "S" -> "s"
      [] ch = "F" -> "f"
      [] ch = "H" -> "h"
      [] ch = "M" -> "m"
      [] ch = "T" -> "t"
      [] ch = "Y" -> "y"
      [] OTHER -> ch
Lower(s) == [i \in 1..Len(s) |-> LowerChar(s[i])]

\* `pattern in text` (substring)
Contains(text, pattern) ==
    \E i \in 0..(Len(text) - Len(pattern)) :
        \A j \in 1..Len(pattern) : text[i + j] = pattern[j]

SENSITIVE_FILE_PATTERNS ==
    { <<".", "e", "n", "v">>,
      <<"s", "e", "c", "r", "e", "t">>,
      <<"p", "a", "s", "s", "w", "o", "r", "d">>,
      <<"c", "r", "e", "d", "e", "n", "t", "i", "a", "l", "s">>,
      <<"a", "p", "i", "_", "k", "e", "y">>,
      <<"p", "r", "i", "v", "a", "t", "e", "_", "k", "e", "y">>,
      <<"a", "u", "t", "h">>,
      <<"p", "a", "y", "m", "e", "n", "t">>,
      <<"b", "i", "l", "l", "i", "n", "g">>,
      <<"d", "a", "t", "a", "b", "a", "s", "e">>,
      <<"c", "o", "n", "f", "i", "g", "/", "p", "r", "o", "d", "u", "c", "t", "i", "o", "n">> }

HighRiskTags ==
    { <<"s", "e", "c", "u", "r", "i", "t", "y">>,
      <<"a", "u", "t", "h">>,
      <<"a", "u", "t", "h", "e", "n", "t", "i", "c", "a", "t", "i", "o", "n">>,
      <<"p", "a", "y", "m", "e", "n", "t">>,
      <<"b", "i", "l", "l", "i", "n", "g">>,
      <<"d", "a", "t", "a", "b", "a", "s", "e">> }

\* risk_policy.auto_apply and risk_policy.require_approval
PolicyAutoApply == risk_policy.auto_apply
PolicyRequireApproval == risk_policy.require_approval

check_sensitive_files(files) ==
    { i \in 1..Len(files) :
        \E pat \in SENSITIVE_FILE_PATTERNS : Contains(Lower(files[i]), pat) }

\* The risk factors assess_risk raises, as a set of factor names.
risk_factors(p) ==
    (IF p.risk_level \in PolicyRequireApproval THEN {"risk_level"} ELSE {})
    \cup (IF Len(p.files_touched) > FileChangeLimit THEN {"files"} ELSE {})
    \cup (IF Abs(p.estimated_loc_change) > LocChangeLimit THEN {"loc"} ELSE {})
    \cup (IF check_sensitive_files(p.files_touched) # {} THEN {"sensitive"} ELSE {})
    \cup (IF \E i \in 1..Len(p.tags) : Lower(p.tags[i]) \in HighRiskTags
          THEN {"tags"} ELSE {})

requires_approval(p) == risk_factors(p) # {}

auto_apply_eligible(p) ==
    ~requires_approval(p) /\ p.risk_level \in PolicyAutoApply

\* sort_by_risk_priority: Python's stable sort on the level's rank
risk_order(level) ==
    CASE level = "critical" -> 0
      [] level = "high" -> 1
      [] level = "medium" -> 2
      [] level = "low" -> 3
      [] OTHER -> 4

RECURSIVE InsertByRank(_, _)
InsertByRank(sorted, p) ==
    IF sorted = << >> THEN <<p>>
    ELSE IF risk_order(ProposalById(Head(sorted)).risk_level)
              <= risk_order(ProposalById(p).risk_level)
         THEN <<Head(sorted)>> \o InsertByRank(Tail(sorted), p)
         ELSE <<p>> \o sorted

RECURSIVE sort_by_risk_priority(_)
sort_by_risk_priority(ids) ==
    IF ids = << >> THEN << >>
    ELSE InsertByRank(sort_by_risk_priority(SubSeq(ids, 1, Len(ids) - 1)),
                      ids[Len(ids)])

(***************************************************************************)
(* The git working tree, as far as the patch engine and the VCS adapter    *)
(* (git_ops.py) tell states apart: the changes committed to HEAD, the      *)
(* changes staged in the index, and what else is in the directory.         *)
(***************************************************************************)
CleanTree ==
    [ committed |-> {},          \* proposal changes in HEAD
      staged |-> {},             \* proposal changes applied and staged
      userMod |-> FALSE,         \* an uncommitted edit of a tracked file
      userUntracked |-> FALSE,   \* an untracked file outside the ignored prefixes
      ignoredUntracked |-> FALSE ] \* an untracked file under .ambient/, .swarmguard/, ...

\* git reset --hard; git clean -fd
git_reset_hard_clean(tree) ==
    [tree EXCEPT !.staged = {}, !.userMod = FALSE,
                 !.userUntracked = FALSE, !.ignoredUntracked = FALSE]

\* git_is_clean, were only the index looked at
git_is_clean_index_only(tree) == tree.staged = {}

\* git status --porcelain is empty after dropping "?? path" lines under the
\* ignored prefixes
git_is_clean(tree) ==
    /\ tree.staged = {}
    /\ ~tree.userMod
    /\ ~tree.userUntracked

\* git diff --cached --quiet returns 1
git_has_staged_changes(tree) == tree.staged # {}

\* git commit -m message: the index becomes the new HEAD
git_commit(tree) ==
    [tree EXCEPT !.committed = tree.committed \cup tree.staged, !.staged = {}]

\* git_apply_patch_atomic, were the patched files left out of the index
\* (no change recorded for the proposal)
git_apply_patch_atomic_unstaged(tree, id, fits) ==
    LET scratch == [tree EXCEPT !.ignoredUntracked = TRUE] IN
    IF id \in tree.staged \cup tree.committed
    THEN [ok |-> TRUE, status |-> "already_applied", tree |-> scratch]
    ELSE IF fits
    THEN [ok |-> TRUE, status |-> "applied", tree |-> scratch]
    ELSE [ok |-> FALSE, status |-> "failed",
          tree |-> git_reset_hard_clean(scratch)]

\* git_apply_patch_atomic(root, diff) for the diff of proposal `id`.
\* `fits` says whether some strategy (forward check-and-apply, 3-way, the
\* in-process fallback) can apply the diff to the files as they are.  The
\* engine writes its scratch file .swarmguard/apply.patch before it tries.
\* Result: [ok, status, tree].
git_apply_patch_atomic(tree, id, fits) ==
    LET scratch == [tree EXCEPT !.ignoredUntracked = TRUE] IN
    IF id \in tree.staged \cup tree.committed
    THEN \* git apply --check -R is clean: already applied
         [ok |-> TRUE, status |-> "already_applied", tree |-> scratch]
    ELSE IF fits
    THEN [ok |-> TRUE, status |-> "applied",
          tree |-> [scratch EXCEPT !.staged = scratch.staged \cup {id}]]
    ELSE \* every candidate and strategy failed: debug bundle, hard reset
         [ok |-> FALSE, status |-> "failed",
          tree |-> git_reset_hard_clean(scratch)]


(***************************************************************************)
(* The sandbox runner (sandbox.py).  An argument is a sequence of          *)
(* characters; LF, CR and NUL stand for "\n", "\r" and "\x00".             *)
(***************************************************************************)
LF == "LF"
CR == "CR"
NUL == "NUL"
SP == " "
QUOTE == "'"
DQUOTE == "dq"

\* shlex's safe characters among the ones used here: [\w@%+=:,./-]
SafeChars == {"e", "h", "a", "b", "-", "."}

ArgEcho == <<"e">>
ArgHi == <<"h">>
ArgSpace == <<"a", SP, "b">>
ArgEmpty == << >>
ArgLF == <<"h", LF>>
ArgCR == <<CR>>
ArgNUL == <<"a", NUL>>

Args == {ArgEcho, ArgHi, ArgSpace, ArgEmpty, ArgLF, ArgCR, ArgNUL}

Argvs == UNION { [1..n -> Args] : n \in 0..MaxArgv }

\* ControlChars, were NUL forgotten
ControlChars_no_nul == {LF, CR}

\* any(ch in a for ch in ["\n", "\r", "\x00"])
ControlChars == {LF, CR, NUL}

HasControlChar(a) == \E i \in 1..Len(a) : a[i] \in ControlChars

\* shlex.quote(s)
RECURSIVE EscapeQuotes(_)
EscapeQuotes(s) ==
    IF s = << >> THEN << >>
    ELSE (IF Head(s) = QUOTE THEN <<QUOTE, DQUOTE, QUOTE, DQUOTE, QUOTE>>
          ELSE <<Head(s)>>) \o EscapeQuotes(Tail(s))

shlex_quote(s) ==
    IF s = << >> THEN <<QUOTE, QUOTE>>
    ELSE IF \A i \in 1..Len(s) : s[i] \in SafeChars THEN s
    ELSE <<QUOTE>> \o EscapeQuotes(s) \o <<QUOTE>>

\* shlex.join(argv): " ".join(quote(a) for a in argv)
RECURSIVE shlex_join(_)
shlex_join(argv) ==
    IF argv = << >> THEN << >>
    ELSE IF Len(argv) = 1 THEN shlex_quote(argv[1])
    ELSE shlex_quote(Head(argv)) \o <<SP>> \o shlex_join(Tail(argv))

\* A regular expression is a sequence of items: a literal character, "."
\* (any character but a newline) or ".*".
Lit(ch) == [kind |-> "lit", ch |-> ch]
Dot == [kind |-> "dot", ch |-> ""]
DotStar == [kind |-> "dotstar", ch |-> ""]

\* re.fullmatch(pattern, s)
RECURSIVE fullmatch(_, _)
fullmatch(re, s) ==
    IF re = << >> THEN s = << >>
    ELSE CASE Head(re).kind = "lit" ->
                s # << >> /\ Head(s) = Head(re).ch /\ fullmatch(Tail(re), Tail(s))
           [] Head(re).kind = "dot" ->
                s # << >> /\ Head(s) # LF /\ fullmatch(Tail(re), Tail(s))
           [] OTHER ->
                \/ fullmatch(Tail(re), s)
                \/ s # << >> /\ Head(s) # LF /\ fullmatch(re, Tail(s))

ReEchoAny == <<Lit("e"), Lit(SP), DotStar>>           \* e .*
ReAny == <<DotStar>>                                  \* .*
ReEchoOne == <<Lit("e"), Lit(SP), Dot>>               \* e .

AllowedArgvLists ==
    { << >>,
      << <<ArgEcho>> >>,
      << <<ArgEcho, ArgHi>> >>,
      << << >> >>,
      << <<ArgEcho, ArgLF>> >>,
      << << >>, <<ArgHi>> >> }

AllowedCommandLists == { << >>, <<ReEchoAny>>, <<ReAny>>, <<ReEchoOne>> }

\* The settings SandboxRunner.run reads.  fail_run stands for the fail_run
\* argument and the two *_FAIL_SANDBOX_RUN environment switches, stub for
\* the stub argument and the two *_SANDBOX_STUB environment switches.
Runners ==
    [ fail_run : BOOLEAN, stub : BOOLEAN, enforce_allowlist : BOOLEAN,
      allowed_argv : AllowedArgvLists, allowed_commands : AllowedCommandLists ]

DefaultRunner ==
    [ fail_run |-> FALSE, stub |-> FALSE, enforce_allowlist |-> FALSE,
      allowed_argv |-> << >>, allowed_commands |-> << >> ]

\* PrefixEqual, were the entry looked for anywhere in argv
PrefixEqual_anywhere(argv, allowed) ==
    \E i \in 1..Len(argv) :
        /\ i + Len(allowed) - 1 <= Len(argv)
        /\ SubSeq(argv, i, i + Len(allowed) - 1) = allowed

\* argv[: len(allowed)] == allowed
PrefixEqual(argv, allowed) ==
    SubSeq(argv, 1, Min(Len(allowed), Len(argv))) = allowed

\* SandboxRunner._check_argv_allowed(argv): [ok, reason]
check_argv_allowed(runner, argv) ==
    IF argv = << >>
    THEN [ok |-> FALSE, reason |-> "Empty argv"]
    ELSE IF \E i \in 1..Len(argv) : HasControlChar(argv[i])
    THEN [ok |-> FALSE, reason |-> "Newlines/NUL not allowed"]
    ELSE IF runner.enforce_allowlist
    THEN IF runner.allowed_argv = << >> /\ runner.allowed_commands = << >>
         THEN [ok |-> FALSE, reason |-> "allowlist is empty"]
         ELSE IF \E i \in 1..Len(runner.allowed_argv) :
                    /\ runner.allowed_argv[i] # << >>
                    /\ PrefixEqual(argv, runner.allowed_argv[i])
         THEN [ok |-> TRUE, reason |-> ""]
         ELSE IF \E i \in 1..Len(runner.allowed_commands) :
                    fullmatch(runner.allowed_commands[i], shlex_join(argv))
         THEN [ok |-> TRUE, reason |-> ""]
         ELSE [ok |-> FALSE, reason |-> "Command not in allowlist"]
    ELSE [ok |-> TRUE, reason |-> ""]

\* What a started process, or the attempt to start one, comes to.
ProcOutcomes == {"exit0", "exit1", "not_found", "timeout"}

NoRun == [kind |-> "none", exit_code |-> 0, rejected |-> FALSE, spawned |-> FALSE]

Returned(code, rej, sp) ==
    [kind |-> "returned", exit_code |-> code, rejected |-> rej, spawned |-> sp]

Raised(sp) == [kind |-> "raised", exit_code |-> 0, rejected |-> FALSE, spawned |-> sp]

ExitCode(proc) == IF proc = "exit0" THEN 0 ELSE 1

\* SandboxRunner.run(argv).  `docker`: the docker binary is on PATH;
\* `proc`: what the command's process does.  The result says whether the call
\* started any process.
run(runner, argv, docker, proc) ==
    IF runner.fail_run
    THEN Returned(1, FALSE, FALSE)
    ELSE IF ~check_argv_allowed(runner, argv).ok
    THEN Returned(126, TRUE, FALSE)
    ELSE IF runner.stub
    THEN \* subprocess.run(argv): FileNotFoundError and TimeoutExpired escape
         CASE proc = "not_found" -> Raised(FALSE)
           [] proc = "timeout" -> Raised(TRUE)
           [] OTHER -> Returned(ExitCode(proc), FALSE, TRUE)
    ELSE IF ~docker
    THEN Returned(127, FALSE, FALSE)
    ELSE \* docker --version (when require_docker), then docker run; a missing
         \* binary gave 127 above with or without require_docker
         CASE proc = "timeout" -> Raised(TRUE)
           [] proc = "not_found" -> Returned(127, FALSE, TRUE)
           [] OTHER -> Returned(ExitCode(proc), FALSE, TRUE)

\* What git_apply_patch_atomic returned, before any call
NoResult == [ok |-> TRUE, status |-> "none"]
(***************************************************************************)
(* The coordinator (coordinator.py).                                       *)
(***************************************************************************)
VARIABLES
    cfg,                  \* the configuration and the approval handler's kind
    slots,                \* the cycles that run on this coordinator
    cyclesLeft,           \* how many more cycles the behaviour may start
    pc,                   \* pc[c]: where cycle c is (its last suspension point)
    proposals,            \* proposals[c]: what _generate_proposals returned
    queue,                \* queue[c]: sorted proposals not yet processed
    applied,              \* applied[c]: ids of the results' "applied" list
    failed,               \* failed[c]: <<id, reason>> of the results' "failed" list
    status,               \* status[c]: the status the cycle returned
    telemetry,            \* telemetry[c]: the cycle-level records logged under its run_id
    acts,                 \* acts[c][id]: what the cycle did for the proposal
    rcands,               \* rcands[c]: the review candidates and their workers
    write_lock,           \* the cycle holding write_lock, or 0
    repo,                 \* the main worktree
    pre_patch,            \* the worktree as the last apply_patch call found it
    apply_result,         \* what the last direct git_apply_patch_atomic call returned
    apply_outcomes,       \* deque(maxlen = failure_rate_window)
    verify_outcomes,      \* deque(maxlen = failure_rate_window)
    proposal_timestamps,  \* deque of times
    backoff_seconds,
    backoff_until,
    now,                  \* time.time()
    sandbox_runner,       \* the SandboxRunner's settings
    sandbox_argv,         \* the argv of the last SandboxRunner.run call
    sandbox_result        \* what that call returned, and whether it started a process

VARIABLES
    mon,                  \* the monitoring settings: max_queue_size, debounce_seconds
    running,              \* self._running
    sup,                  \* where start() is
    scan,                 \* where the periodic scan task is
    event_queue,          \* asyncio.Queue(maxsize = monitoring.max_queue_size)
    history,              \* the statuses _handle_event returned to start()
    last_event_by_path,   \* AmbientEventHandler._last_event_by_path
    pending_puts,         \* _put_nowait callbacks handed to the loop, not yet run
    fs_events,            \* notifications the observer has delivered
    fs_last,              \* the path of the latest of them
    monitor_log,          \* the handler's telemetry entries
    handled_events        \* the events _handle_event was called with, in order

supVars == << mon, running, sup, scan, event_queue, history,
              last_event_by_path, pending_puts, fs_events, fs_last,
              monitor_log, handled_events >>


VARIABLES
    agent_results,        \* what asyncio.gather returns for the agents' propose calls
    agent_log             \* the agent_error telemetry entries

agentVars == << agent_results, agent_log >>

VARIABLES
    wt,                   \* one tracked file of a repository: at HEAD and in the worktree
    diff_in,              \* the diff handed to git_apply_patch_atomic
    prefer_fallback,      \* SWARMGUARD_PATCH_PREFER_FALLBACK is "1"
    engine_log,           \* the calls so far: result, file before and after
    git_outcome,          \* the steps that succeed on this diff and tree, and
                          \* whether fix_hunk_counts changes the diff
    strategy_trace        \* the steps git_apply_patch_atomic ran, in order

engineVars == << wt, diff_in, prefer_fallback, engine_log, git_outcome,
                 strategy_trace >>

VARIABLES
    webhook_response,     \* what the POST to the webhook comes to
    webhook_answer        \* what request_approval did with it

webhookVars == << webhook_response, webhook_answer >>

VARIABLES
    pollinate_in,         \* base_proposals and refined_lists
    pollinate_out         \* CrossPollinationResult.proposals

pollinateVars == << pollinate_in, pollinate_out >>

VARIABLES
    parse_agent,          \* the agent variant whose propose is called
    parse_content,        \* the content of the model's reply
    parse_out             \* the agent fields of the proposals propose returned

parseVars == << parse_agent, parse_content, parse_out >>

VARIABLES
    kimi_retry_max,       \* KimiClient.retry_max
    kimi_attempt,         \* the loop variable of chat_completion
    kimi_state,           \* running, returned or raised
    kimi_log              \* one entry for each POST chat_completion made

kimiVars == << kimi_retry_max, kimi_attempt, kimi_state, kimi_log >>

\* The state of the components called on their own.
pureVars == << engineVars, webhookVars, pollinateVars, parseVars, kimiVars >>

\* The state outside the coordinator's cycles.
extVars == << supVars, agentVars, pureVars, policyVars >>

\* What no step of a cycle changes.
envVars == << cfg, slots, apply_result, sandbox_runner, sandbox_argv,
             sandbox_result, extVars >>

vars == << cfg, slots, cyclesLeft, pc, proposals, queue, applied, failed,
           status, telemetry, acts, rcands, write_lock, repo, pre_patch, apply_result,
           apply_outcomes, verify_outcomes, proposal_timestamps,
           backoff_seconds, backoff_until, now, sandbox_runner, sandbox_argv,
           sandbox_result, extVars >>

HandlerKinds == {"AlwaysApprove", "AlwaysReject", "Other"}

\* The settings the cycle reads.  Settings the code does not read in a given
\* mode are held at their defaults there.
Configs ==
    { k \in [ paused : BOOLEAN,
              review : BOOLEAN,
              keep_worktrees : BOOLEAN,
              require_clean : BOOLEAN,
              commit_on_success : BOOLEAN,
              kill_switch : BOOLEAN,
              max_ph : {0, MaxPerHour},
              handler : HandlerKinds ] :
        /\ k.paused =>
             /\ ~k.review /\ k.require_clean /\ ~k.commit_on_success
             /\ k.kill_switch /\ k.max_ph = 0 /\ k.handler = "AlwaysApprove"
        /\ k.handler = "AlwaysReject" =>
             k.keep_worktrees /\ k.require_clean /\ ~k.commit_on_success
        /\ k.review => k.require_clean
        /\ ~k.review => k.keep_worktrees }

InitialTrees ==
    { CleanTree,
      [CleanTree EXCEPT !.ignoredUntracked = TRUE],
      [CleanTree EXCEPT !.userMod = TRUE],
      [CleanTree EXCEPT !.userUntracked = TRUE, !.ignoredUntracked = TRUE] }

NoActs == [i \in ProposalIds |-> {}]

\* The coordinator after construction, with the main worktree as it finds it.
CoordInit(configs, trees, cycleSlots, nCycles) ==
    /\ cfg \in configs
    /\ slots = cycleSlots
    /\ cyclesLeft = nCycles
    /\ pc = [c \in Cycles |-> "idle"]
    /\ proposals = [c \in Cycles |-> << >>]
    /\ queue = [c \in Cycles |-> << >>]
    /\ applied = [c \in Cycles |-> << >>]
    /\ failed = [c \in Cycles |-> << >>]
    /\ status = [c \in Cycles |-> "none"]
    /\ telemetry = [c \in Cycles |-> << >>]
    /\ acts = [c \in Cycles |-> NoActs]
    /\ rcands = [c \in Cycles |-> << >>]
    /\ write_lock = 0
    /\ repo \in trees
    /\ pre_patch = repo
    /\ apply_outcomes = << >>
    /\ verify_outcomes = << >>
    /\ proposal_timestamps = << >>
    /\ backoff_seconds = 0
    /\ backoff_until = 0
    /\ now = 0
    /\ apply_result = NoResult

\* A SandboxRunner after construction.
SandboxInit(runners) ==
    /\ sandbox_runner \in runners
    /\ sandbox_argv = << >>
    /\ sandbox_result = NoRun

\* deque(maxlen = n).append(x)
DequeAppend(d, x, n) ==
    LET e == Append(d, x) IN
    IF Len(e) > n THEN SubSeq(e, Len(e) - n + 1, Len(e)) ELSE e

OutcomeMaxLen == Max(1, FailureRateWindow)

\* NextBackoff, were the cap forgotten
NextBackoff_uncapped(prev) == Max(control_plane.backoff_base_seconds, prev * 2)

\* min(backoff_max, max(backoff_base, backoff_seconds * 2 or 0))
NextBackoff(prev) ==
    Min(control_plane.backoff_max_seconds,
        Max(control_plane.backoff_base_seconds, prev * 2))

\* The backoff update of a cycle exception, a patch failure and a
\* verification failure: <<backoff_seconds', backoff_until'>>
UpdateBackoff(prev, until, t) ==
    LET b == NextBackoff(prev) IN
    <<b, IF b # 0 THEN t + b ELSE until>>

\* ranks of the enabled agents, in the order of agents.enabled
AgentsEnabled == <<"SecurityGuardian", "RefactorArchitect", "StyleEnforcer">>

AgentRank(a) == CHOOSE i \in 1..Len(AgentsEnabled) : AgentsEnabled[i] = a

\* What _generate_proposals can return: the agents' lists concatenated in
\* the order of self.agents, at most MaxProposals proposals, all distinct.
IdSeqs == UNION { [1..n -> ProposalIds] : n \in 0..MaxProposals }

AgentOutputs ==
    { s \in IdSeqs :
        /\ \A i, j \in 1..Len(s) : i # j => s[i] # s[j]
        /\ \A i, j \in 1..Len(s) :
             i < j => AgentRank(ProposalById(s[i]).agent)
                        <= AgentRank(ProposalById(s[j]).agent) }

\* [p for p in all_proposals if p.agent == agent_name]
RECURSIVE refine(_, _)
refine(ids, a) ==
    IF ids = << >> THEN << >>
    ELSE (IF ProposalById(Head(ids)).agent = a THEN <<Head(ids)>> ELSE << >>)
         \o refine(Tail(ids), a)

\* _cross_pollinate: every agent's refine, flattened in agent order; the
\* input when that is empty.
RECURSIVE FlattenRefined(_, _)
FlattenRefined(ids, agents) ==
    IF agents = << >> THEN << >>
    ELSE refine(ids, Head(agents)) \o FlattenRefined(ids, Tail(agents))

cross_pollinate(ids) ==
    LET refined == FlattenRefined(ids, agents_enabled) IN
    IF refined # << >> THEN refined ELSE ids

\* The kill-switch test at the top of _apply_proposals.
Failures(outcomes) == Cardinality({i \in 1..Len(outcomes) : ~outcomes[i]})

\* KillSwitchTripped with `rate >= threshold`
KillSwitchTripped_ge(enabled, verify, apply) ==
    LET recent == verify \o apply
        failures == Failures(recent)
    IN  /\ enabled
        /\ failures >= MinFailures
        /\ recent # << >>
        /\ failures * ThresholdDen >= ThresholdNum * Len(recent)

KillSwitchTripped(enabled, verify, apply) ==
    LET recent == verify \o apply
        failures == Failures(recent)
    IN  /\ enabled
        /\ failures >= MinFailures
        /\ recent # << >>
        \* failures / len(recent) > threshold
        /\ failures * ThresholdDen > ThresholdNum * Len(recent)

\* [{"proposal": p, "reason": r} for p in ids]
AllFailed(ids, reason) == [i \in 1..Len(ids) |-> <<ids[i], reason>>]

\* dry_run, were the always-reject handler not recognised
dry_run_never(handler) == FALSE

\* dry_run = isinstance(self.approval_handler, AlwaysRejectHandler)
dry_run(handler) == handler = "AlwaysReject"

AddAct(a, id, what) == [a EXCEPT ![id] = a[id] \cup {what}]

(***************************************************************************)
(* _handle_event, up to the apply stage.                                   *)
(***************************************************************************)
CycleStarted == [type |-> "cycle_started", status |-> ""]
CycleCompleted(st) == [type |-> "cycle_completed", status |-> st]
ControlPlaneThrottled == [type |-> "control_plane_throttled", status |-> ""]

\* The record _handle_event logs before it returns `st`: cycle_completed,
\* but control_plane_throttled on the throttled return.
LastRecord(st) ==
    IF st = "throttled" THEN ControlPlaneThrottled ELSE CycleCompleted(st)

\* The records of the cycle so far; cycle_started alone when the cycle is
\* only now being entered.
Logged(c) == IF pc[c] \in {"idle", "done"} THEN <<CycleStarted>> ELSE telemetry[c]

\* A cycle ends: _handle_event logs its last record and returns `st`.
Finish(c, st) ==
    /\ pc' = [pc EXCEPT ![c] = "done"]
    /\ status' = [status EXCEPT ![c] = st]
    /\ telemetry' = [telemetry EXCEPT ![c] = Append(Logged(c), LastRecord(st))]

\* CycleError, were the backoff left alone
CycleError_no_backoff(c) ==
    /\ Finish(c, "error")
    /\ UNCHANGED << backoff_seconds, backoff_until >>

\* The `except Exception` of _handle_event: backoff, status error.
CycleError(c) ==
    /\ Finish(c, "error")
    /\ backoff_seconds' = UpdateBackoff(backoff_seconds, backoff_until, now)[1]
    /\ backoff_until' = UpdateBackoff(backoff_seconds, backoff_until, now)[2]

\* _handle_event is entered (run_once, or start()'s loop): cycle_started is
\* logged; a paused control plane returns at once.
StartCycle(c) ==
    /\ c \in slots
    /\ pc[c] \in {"idle", "done"}
    /\ cyclesLeft > 0
    /\ cyclesLeft' = cyclesLeft - 1
    /\ proposals' = [proposals EXCEPT ![c] = << >>]
    /\ queue' = [queue EXCEPT ![c] = << >>]
    /\ applied' = [applied EXCEPT ![c] = << >>]
    /\ failed' = [failed EXCEPT ![c] = << >>]
    /\ acts' = [acts EXCEPT ![c] = NoActs]
    /\ rcands' = [rcands EXCEPT ![c] = << >>]
    /\ IF cfg.paused
       THEN Finish(c, "paused")
       ELSE /\ pc' = [pc EXCEPT ![c] = "propose"]
            /\ status' = [status EXCEPT ![c] = "none"]
            /\ telemetry' = [telemetry EXCEPT ![c] = <<CycleStarted>>]
    /\ UNCHANGED << envVars, pre_patch, write_lock, repo, apply_outcomes,
                    verify_outcomes, proposal_timestamps, backoff_seconds,
                    backoff_until, now >>

\* proposal_timestamps after one append per proposal and the pruning of
\* entries older than the window
RECURSIVE DropOld(_, _)
DropOld(ts, cutoff) ==
    IF ts # << >> /\ Head(ts) < cutoff THEN DropOld(Tail(ts), cutoff) ELSE ts

\* ThrottleWindow, were the deque replaced by this cycle's timestamps
ThrottleWindow_cycle_only(ts, n, t) == [i \in 1..n |-> t]

ThrottleWindow(ts, n, t) ==
    DropOld(ts \o [i \in 1..n |-> t], t - WindowSeconds)

\* build_context and _generate_proposals return `ids` (an agent that raises
\* contributes nothing), then the throttle.
Generated(c, ids) ==
    /\ pc[c] = "propose"
    /\ proposals' = [proposals EXCEPT ![c] = ids]
    /\ IF ids = << >>
       THEN /\ Finish(c, "no_proposals")
            /\ UNCHANGED << failed, proposal_timestamps >>
       ELSE IF cfg.max_ph > 0
       THEN LET w == ThrottleWindow(proposal_timestamps, Len(ids), now) IN
            /\ proposal_timestamps' = w
            /\ IF Len(w) > cfg.max_ph
               THEN /\ Finish(c, "throttled")
                    /\ failed' = [failed EXCEPT ![c] = AllFailed(ids, "throttled")]
               ELSE /\ pc' = [pc EXCEPT ![c] = "refine"]
                    /\ UNCHANGED << status, telemetry, failed >>
       ELSE /\ pc' = [pc EXCEPT ![c] = "refine"]
            /\ UNCHANGED << status, telemetry, failed, proposal_timestamps >>
    /\ UNCHANGED << pre_patch, cyclesLeft, queue, applied, acts, rcands,
                    write_lock, repo, apply_outcomes, verify_outcomes,
                    backoff_seconds, backoff_until, now >>

\* The same with nothing else happening.
GenerateProposals(c, ids) ==
    /\ Generated(c, ids)
    /\ UNCHANGED envVars

\* build_context or _generate_proposals raises.
GenerateRaises(c) ==
    /\ pc[c] = "propose"
    /\ CycleError(c)
    /\ UNCHANGED << envVars, pre_patch, cyclesLeft, proposals, queue, applied, failed,
                    acts, rcands, write_lock, repo, apply_outcomes,
                    verify_outcomes, proposal_timestamps, now >>

\* CrossPollinate, were the outcome windows cleared by a tripped kill-switch
CrossPollinate_reset(c) ==
    /\ pc[c] = "refine"
    /\ LET sorted == sort_by_risk_priority(cross_pollinate(proposals[c])) IN
       IF KillSwitchTripped(cfg.kill_switch, verify_outcomes, apply_outcomes)
       THEN /\ failed' = [failed EXCEPT ![c] = AllFailed(sorted, "auto_apply_disabled")]
            /\ Finish(c, "success")
            /\ apply_outcomes' = << >>
            /\ verify_outcomes' = << >>
            /\ UNCHANGED queue
       ELSE IF dry_run(cfg.handler)
       THEN /\ failed' = [failed EXCEPT ![c] = AllFailed(sorted, "dry_run")]
            /\ Finish(c, "success")
            /\ UNCHANGED << queue, apply_outcomes, verify_outcomes >>
       ELSE /\ queue' = [queue EXCEPT ![c] = sorted]
            /\ pc' = [pc EXCEPT ![c] = IF cfg.review THEN "rgate" ELSE "gate"]
            /\ UNCHANGED << failed, status, telemetry, apply_outcomes, verify_outcomes >>
    /\ UNCHANGED << envVars, pre_patch, cyclesLeft, proposals, applied, acts, rcands,
                    write_lock, repo, proposal_timestamps, backoff_seconds,
                    backoff_until, now >>

\* _cross_pollinate returns; the proposals are sorted and _apply_proposals
\* starts: kill-switch, then dry-run, then the mode's loop.
CrossPollinate(c) ==
    /\ pc[c] = "refine"
    /\ LET sorted == sort_by_risk_priority(cross_pollinate(proposals[c])) IN
       IF KillSwitchTripped(cfg.kill_switch, verify_outcomes, apply_outcomes)
       THEN /\ failed' = [failed EXCEPT ![c] = AllFailed(sorted, "auto_apply_disabled")]
            /\ Finish(c, "success")
            /\ UNCHANGED queue
       ELSE IF dry_run(cfg.handler)
       THEN /\ failed' = [failed EXCEPT ![c] = AllFailed(sorted, "dry_run")]
            /\ Finish(c, "success")
            /\ UNCHANGED queue
       ELSE /\ queue' = [queue EXCEPT ![c] = sorted]
            /\ pc' = [pc EXCEPT ![c] = IF cfg.review THEN "rgate" ELSE "gate"]
            /\ UNCHANGED << failed, status, telemetry >>
    /\ UNCHANGED << envVars, pre_patch, cyclesLeft, proposals, applied, acts, rcands,
                    write_lock, repo, apply_outcomes, verify_outcomes,
                    proposal_timestamps, backoff_seconds, backoff_until, now >>

(***************************************************************************)
(* _apply_proposals, direct mode: one proposal at a time.                  *)
(***************************************************************************)
Cur(c) == Head(queue[c])

\* failed.append({"proposal": proposal, "reason": reason}) and the loop
\* moves on to the next proposal.
FailCur(c, reason) ==
    /\ failed' = [failed EXCEPT ![c] = Append(failed[c], <<Cur(c), reason>>)]
    /\ queue' = [queue EXCEPT ![c] = Tail(queue[c])]

\* EnterLock, were apply_patch called without the lock
EnterLock_unlocked(c) ==
    /\ pc' = [pc EXCEPT ![c] = "patch"]
    /\ UNCHANGED write_lock

\* `async with self.write_lock` is reached: a free lock is taken without
\* suspending and apply_patch is called; a held lock makes the cycle wait.
EnterLock(c) ==
    IF write_lock = 0
    THEN /\ write_lock' = c
         /\ pc' = [pc EXCEPT ![c] = "patch"]
    ELSE /\ pc' = [pc EXCEPT ![c] = "lock"]
         /\ UNCHANGED write_lock

\* Top of the loop: the clean-worktree gate and the risk assessment.
\* `statusFails`: git status exits non-zero.
Gate(c, statusFails) ==
    /\ pc[c] = "gate"
    /\ IF queue[c] = << >>
       THEN /\ ~statusFails
            /\ Finish(c, "success")
            /\ UNCHANGED << queue, failed, acts, write_lock >>
       ELSE IF cfg.require_clean /\ statusFails
       THEN /\ FailCur(c, "git_status_failed")
            /\ UNCHANGED << pc, status, telemetry, acts, write_lock >>
       ELSE IF cfg.require_clean /\ ~git_is_clean(repo)
       THEN /\ FailCur(c, "dirty_worktree")
            /\ UNCHANGED << pc, status, telemetry, acts, write_lock >>
       ELSE /\ ~statusFails
            /\ IF requires_approval(ProposalById(Cur(c)))
               THEN /\ pc' = [pc EXCEPT ![c] = "approval"]
                    /\ acts' = [acts EXCEPT ![c] = AddAct(acts[c], Cur(c), "approval_request")]
                    /\ UNCHANGED write_lock
               ELSE /\ EnterLock(c)
                    /\ UNCHANGED acts
            /\ UNCHANGED << queue, failed, status, telemetry >>
    /\ UNCHANGED << envVars, pre_patch, cyclesLeft, proposals, applied, rcands,
                    repo, apply_outcomes, verify_outcomes, proposal_timestamps,
                    backoff_seconds, backoff_until, now >>

\* What request_approval can do, by handler: return true, return false, raise.
HandlerAnswers(kind) ==
    CASE kind = "AlwaysApprove" -> {"true"}
      [] kind = "AlwaysReject" -> {"false"}
      [] OTHER -> {"true", "false", "raise"}

\* approved, were the handler's answer not looked at
approved_always(answer) == TRUE

\* `if not approved: ... continue`
approved(answer) == answer = "true"

\* request_approval returns (or raises) in direct mode.
Approval(c, answer) ==
    /\ pc[c] = "approval"
    /\ answer \in HandlerAnswers(cfg.handler)
    /\ IF answer = "raise"
       THEN /\ CycleError(c)
            /\ UNCHANGED << queue, failed, acts, write_lock >>
       ELSE /\ acts' = [acts EXCEPT ![c] =
                          AddAct(acts[c], Cur(c),
                                 IF answer = "true" THEN "handler_true" ELSE "handler_false")]
            /\ IF approved(answer)
               THEN /\ EnterLock(c)
                    /\ UNCHANGED << queue, failed >>
               ELSE /\ FailCur(c, "approval_rejected")
                    /\ pc' = [pc EXCEPT ![c] = "gate"]
                    /\ UNCHANGED write_lock
            /\ UNCHANGED << status, telemetry, backoff_seconds, backoff_until >>
    /\ UNCHANGED << envVars, pre_patch, cyclesLeft, proposals, applied, rcands,
                    repo, apply_outcomes, verify_outcomes, proposal_timestamps,
                    now >>

\* A cycle waiting for write_lock gets it and calls apply_patch.
AcquireLock(c) ==
    /\ pc[c] = "lock"
    /\ write_lock = 0
    /\ write_lock' = c
    /\ pc' = [pc EXCEPT ![c] = "patch"]
    /\ UNCHANGED << envVars, pre_patch, cyclesLeft, proposals, queue, applied,
                    failed, status, telemetry, acts, rcands, repo, apply_outcomes,
                    verify_outcomes, proposal_timestamps, backoff_seconds,
                    backoff_until, now >>

\* `async with self.write_lock` is left.
ReleaseLock(c) == IF write_lock = c THEN 0 ELSE write_lock

\* workspace.apply_patch returns.
Patch(c, fits) ==
    /\ pc[c] = "patch"
    /\ LET r == git_apply_patch_atomic(repo, Cur(c), fits) IN
       /\ pre_patch' = repo
       /\ repo' = r.tree
       /\ acts' = [acts EXCEPT ![c] = AddAct(acts[c], Cur(c), "patch")]
       /\ IF ~r.ok
          THEN /\ apply_outcomes' = DequeAppend(apply_outcomes, FALSE, OutcomeMaxLen)
               /\ backoff_seconds' = UpdateBackoff(backoff_seconds, backoff_until, now)[1]
               /\ backoff_until' = UpdateBackoff(backoff_seconds, backoff_until, now)[2]
               /\ FailCur(c, "patch_failed")
               /\ write_lock' = ReleaseLock(c)
               /\ pc' = [pc EXCEPT ![c] = "gate"]
          ELSE /\ apply_outcomes' = DequeAppend(apply_outcomes, TRUE, OutcomeMaxLen)
               /\ pc' = [pc EXCEPT ![c] = "verify"]
               /\ UNCHANGED << backoff_seconds, backoff_until, queue, failed,
                               write_lock >>
    /\ UNCHANGED << envVars, cyclesLeft, proposals, applied, status, telemetry, rcands,
                    verify_outcomes, proposal_timestamps, now >>

\* The proposal is applied: applied.append, the lock is left, next proposal.
ApplyCur(c) ==
    /\ applied' = [applied EXCEPT ![c] = Append(applied[c], Cur(c))]
    /\ queue' = [queue EXCEPT ![c] = Tail(queue[c])]
    /\ write_lock' = ReleaseLock(c)
    /\ pc' = [pc EXCEPT ![c] = "gate"]

\* workspace.verify_changes returns; on success the optional commit follows
\* without a suspension point.  `commitFails`: git commit exits non-zero.
Verify(c, ok, commitFails) ==
    /\ pc[c] = "verify"
    /\ IF ~ok
       THEN /\ ~commitFails
            /\ pc' = [pc EXCEPT ![c] = "rollback_verify"]
            /\ acts' = [acts EXCEPT ![c] = AddAct(acts[c], Cur(c), "verify")]
            /\ UNCHANGED << verify_outcomes, repo, backoff_seconds, backoff_until,
                            applied, queue, write_lock >>
       ELSE /\ verify_outcomes' = DequeAppend(verify_outcomes, TRUE, OutcomeMaxLen)
            /\ acts' = [acts EXCEPT ![c] =
                   IF cfg.commit_on_success /\ ~commitFails /\ git_has_staged_changes(repo)
                   THEN AddAct(AddAct(acts[c], Cur(c), "verify"), Cur(c), "commit")
                   ELSE AddAct(acts[c], Cur(c), "verify")]
            /\ IF cfg.commit_on_success
               THEN IF commitFails
                    THEN \* git diff --cached or git commit raised
                         /\ pc' = [pc EXCEPT ![c] = "rollback_commit"]
                         /\ UNCHANGED << repo, backoff_seconds, backoff_until,
                                         applied, queue, write_lock >>
                    ELSE IF git_has_staged_changes(repo)
                    THEN /\ repo' = git_commit(repo)
                         /\ backoff_seconds' = 0
                         /\ backoff_until' = 0
                         /\ ApplyCur(c)
                    ELSE /\ ApplyCur(c)
                         /\ UNCHANGED << repo, backoff_seconds, backoff_until >>
               ELSE /\ ~commitFails
                    /\ ApplyCur(c)
                    /\ UNCHANGED << repo, backoff_seconds, backoff_until >>
    /\ UNCHANGED << envVars, pre_patch, cyclesLeft, proposals, failed, status, telemetry,
                    rcands, apply_outcomes, proposal_timestamps, now >>

\* workspace.rollback returns after a failed verification.
RollbackVerify(c) ==
    /\ pc[c] = "rollback_verify"
    /\ repo' = git_reset_hard_clean(repo)
    /\ acts' = [acts EXCEPT ![c] = AddAct(acts[c], Cur(c), "rollback")]
    /\ verify_outcomes' = DequeAppend(verify_outcomes, FALSE, OutcomeMaxLen)
    /\ backoff_seconds' = UpdateBackoff(backoff_seconds, backoff_until, now)[1]
    /\ backoff_until' = UpdateBackoff(backoff_seconds, backoff_until, now)[2]
    /\ FailCur(c, "verification_failed")
    /\ write_lock' = ReleaseLock(c)
    /\ pc' = [pc EXCEPT ![c] = "gate"]
    /\ UNCHANGED << envVars, pre_patch, cyclesLeft, proposals, applied, status, telemetry,
                    rcands, apply_outcomes, proposal_timestamps, now >>

\* workspace.rollback returns after a failed commit.
RollbackCommit(c) ==
    /\ pc[c] = "rollback_commit"
    /\ repo' = git_reset_hard_clean(repo)
    /\ acts' = [acts EXCEPT ![c] = AddAct(acts[c], Cur(c), "rollback")]
    /\ FailCur(c, "git_commit_failed")
    /\ write_lock' = ReleaseLock(c)
    /\ pc' = [pc EXCEPT ![c] = "gate"]
    /\ UNCHANGED << envVars, pre_patch, cyclesLeft, proposals, applied, status, telemetry,
                    rcands, apply_outcomes, verify_outcomes, proposal_timestamps,
                    backoff_seconds, backoff_until, now >>

(***************************************************************************)
(* _apply_proposals_review_worktrees: every proposal in a worktree of its  *)
(* own, at most max_parallel workers at a time.                            *)
(***************************************************************************)
\* The titles of the proposals of ProposalPool: those of 1 and 4 differ in
\* spelling only.
ProposalTitle(id) ==
    CASE id = 1 -> <<"F", "i", "x">>
      [] id = 2 -> <<"M", "o", "v", "e">>
      [] id = 3 -> <<"H", "a", "s", "h">>
      [] OTHER -> <<" ", "f", "i", "x", "!">>

\* [^a-zA-Z0-9._-] on the characters that occur in the model
SlugUnsafe == {" ", "!"}

\* re.sub(r"[^a-zA-Z0-9._-]+", "-", ...) and re.sub(r"-+", "-", ...): every
\* run of unsafe characters and hyphens becomes one hyphen.
RECURSIVE Hyphenate(_)
Hyphenate(s) ==
    IF s = << >> THEN << >>
    ELSE LET ch == IF Head(s) \in SlugUnsafe THEN "-" ELSE Head(s)
             rest == Hyphenate(Tail(s))
         IN  IF ch = "-" /\ rest # << >> /\ Head(rest) = "-" THEN rest
             ELSE <<ch>> \o rest

\* .strip("-._")
RECURSIVE StripPunct(_)
StripPunct(s) ==
    IF s # << >> /\ Head(s) \in {"-", ".", "_"} THEN StripPunct(Tail(s))
    ELSE IF s # << >> /\ s[Len(s)] \in {"-", ".", "_"}
    THEN StripPunct(SubSeq(s, 1, Len(s) - 1))
    ELSE s

\* text.strip(), for the blank
RECURSIVE TrimBlanks(_)
TrimBlanks(s) ==
    IF s # << >> /\ Head(s) = " " THEN TrimBlanks(Tail(s))
    ELSE IF s # << >> /\ s[Len(s)] = " " THEN TrimBlanks(SubSeq(s, 1, Len(s) - 1))
    ELSE s

SlugLimit == 48

\* slugify(text)
slugify(text) ==
    LET cleaned == StripPunct(Hyphenate(Lower(TrimBlanks(text))))
        cut == SubSeq(cleaned, 1, Min(SlugLimit, Len(cleaned)))
    IN  IF cut = << >> THEN <<"p", "r", "o", "p", "o", "s", "a", "l">> ELSE cut

\* CandidateName, were the index left out of the name
CandidateName_unindexed(index, title) == <<0, slugify(title)>>

\* f"{index:02d}-{slug}"
CandidateName(index, title) == <<index, slugify(title)>>

\* enumerate(proposals, start=1): the index of the proposal at the head
ProposalIndex(c) ==
    Len(sort_by_risk_priority(cross_pollinate(proposals[c]))) - Len(queue[c]) + 1

\* review_manager.create_candidate: a new branch and worktree at HEAD; the
\* run id of cycle c stands for c.
NewCandidate(c, id) ==
    LET name == CandidateName(ProposalIndex(c), ProposalTitle(id)) IN
    [ id |-> id, wpc |-> "queued", result |-> "none",
      index |-> ProposalIndex(c),
      branch |-> <<"branch_prefix", c, name>>,
      worktree_path |-> <<c, "worktrees", name>>,
      patch_path |-> <<c, "patches", name, ".diff">>,
      tree |-> [CleanTree EXCEPT !.committed = repo.committed] ]

Running(cands) ==
    Cardinality({k \in 1..Len(cands) :
                    cands[k].wpc \in {"patch", "verify", "rollback", "diff"}})

\* asyncio.Semaphore(max_parallel): waiting workers enter in the order of
\* the queue, as long as a place is free.
RECURSIVE Admit(_)
Admit(cands) ==
    LET waiting == {k \in 1..Len(cands) : cands[k].wpc = "queued"} IN
    IF waiting = {} \/ Running(cands) >= Max(1, MaxParallel)
    THEN cands
    ELSE LET k == CHOOSE w \in waiting : \A v \in waiting : w <= v IN
         Admit([cands EXCEPT ![k].wpc = "patch"])

\* The candidate is created (or not) for the proposal at the head.
Enqueue(c, createFails) ==
    /\ queue' = [queue EXCEPT ![c] = Tail(queue[c])]
    /\ IF createFails
       THEN /\ failed' = [failed EXCEPT ![c] =
                            Append(failed[c], <<Cur(c), "review_worktree_failed">>)]
            /\ UNCHANGED rcands
       ELSE /\ rcands' = [rcands EXCEPT ![c] = Append(rcands[c], NewCandidate(c, Cur(c)))]
            /\ UNCHANGED failed

\* One round of the gating loop; after the last one the workers start.
RGate(c, createFails) ==
    /\ pc[c] = "rgate"
    /\ IF queue[c] = << >>
       THEN /\ ~createFails
            /\ IF rcands[c] = << >>
               THEN /\ Finish(c, "success")
                    /\ UNCHANGED rcands
               ELSE /\ rcands' = [rcands EXCEPT ![c] = Admit(rcands[c])]
                    /\ pc' = [pc EXCEPT ![c] = "workers"]
                    /\ UNCHANGED << status, telemetry >>
            /\ UNCHANGED << queue, failed, acts >>
       ELSE IF requires_approval(ProposalById(Cur(c)))
       THEN /\ ~createFails
            /\ pc' = [pc EXCEPT ![c] = "rapproval"]
            /\ acts' = [acts EXCEPT ![c] = AddAct(acts[c], Cur(c), "approval_request")]
            /\ UNCHANGED << queue, failed, rcands, status, telemetry >>
       ELSE /\ Enqueue(c, createFails)
            /\ UNCHANGED << pc, status, telemetry, acts >>
    /\ UNCHANGED << envVars, pre_patch, cyclesLeft, proposals, applied,
                    write_lock, repo, apply_outcomes, verify_outcomes,
                    proposal_timestamps, backoff_seconds, backoff_until, now >>

\* request_approval returns (or raises) in review mode.
RApproval(c, answer, createFails) ==
    /\ pc[c] = "rapproval"
    /\ answer \in HandlerAnswers(cfg.handler)
    /\ IF answer = "raise"
       THEN /\ ~createFails
            /\ CycleError(c)
            /\ UNCHANGED << queue, failed, acts, rcands >>
       ELSE /\ acts' = [acts EXCEPT ![c] =
                          AddAct(acts[c], Cur(c),
                                 IF answer = "true" THEN "handler_true" ELSE "handler_false")]
            /\ pc' = [pc EXCEPT ![c] = "rgate"]
            /\ IF approved(answer)
               THEN Enqueue(c, createFails)
               ELSE /\ ~createFails
                    /\ FailCur(c, "approval_rejected")
                    /\ UNCHANGED rcands
            /\ UNCHANGED << status, telemetry, backoff_seconds, backoff_until >>
    /\ UNCHANGED << envVars, pre_patch, cyclesLeft, proposals, applied,
                    write_lock, repo, apply_outcomes, verify_outcomes,
                    proposal_timestamps, now >>

\* The worker's result is decided: it leaves the semaphore, the next one enters.
WorkerDone(cands, k, res) ==
    Admit([cands EXCEPT ![k].wpc = "done", ![k].result = res])

\* A worker's workspace.apply_patch returns.
WorkerPatch(c, k, fits) ==
    /\ pc[c] = "workers"
    /\ k \in 1..Len(rcands[c])
    /\ rcands[c][k].wpc = "patch"
    /\ LET cand == rcands[c][k]
           r == git_apply_patch_atomic(cand.tree, cand.id, fits)
           patched == [rcands[c] EXCEPT ![k].tree = r.tree]
       IN  /\ acts' = [acts EXCEPT ![c] = AddAct(acts[c], cand.id, "patch")]
           /\ apply_outcomes' = DequeAppend(apply_outcomes, r.ok, OutcomeMaxLen)
           /\ rcands' = [rcands EXCEPT ![c] =
                           IF r.ok THEN [patched EXCEPT ![k].wpc = "verify"]
                           ELSE WorkerDone(patched, k, "patch_failed")]
    /\ UNCHANGED << envVars, pre_patch, cyclesLeft, pc, proposals, queue,
                    applied, failed, status, telemetry, write_lock, repo, verify_outcomes,
                    proposal_timestamps, backoff_seconds, backoff_until, now >>

\* A worker's workspace.verify_changes returns.
WorkerVerify(c, k, ok) ==
    /\ pc[c] = "workers"
    /\ k \in 1..Len(rcands[c])
    /\ rcands[c][k].wpc = "verify"
    /\ acts' = [acts EXCEPT ![c] = AddAct(acts[c], rcands[c][k].id, "verify")]
    /\ IF ok
       THEN /\ verify_outcomes' = DequeAppend(verify_outcomes, TRUE, OutcomeMaxLen)
            /\ rcands' = [rcands EXCEPT ![c][k].wpc = "diff"]
       ELSE /\ rcands' = [rcands EXCEPT ![c][k].wpc = "rollback"]
            /\ UNCHANGED verify_outcomes
    /\ UNCHANGED << envVars, pre_patch, cyclesLeft, pc, proposals, queue,
                    applied, failed, status, telemetry, write_lock, repo, apply_outcomes,
                    proposal_timestamps, backoff_seconds, backoff_until, now >>

\* A worker's workspace.rollback returns.
WorkerRollback(c, k) ==
    /\ pc[c] = "workers"
    /\ k \in 1..Len(rcands[c])
    /\ rcands[c][k].wpc = "rollback"
    /\ acts' = [acts EXCEPT ![c] = AddAct(acts[c], rcands[c][k].id, "rollback")]
    /\ verify_outcomes' = DequeAppend(verify_outcomes, FALSE, OutcomeMaxLen)
    /\ rcands' = [rcands EXCEPT ![c] =
            WorkerDone([rcands[c] EXCEPT ![k].tree = git_reset_hard_clean(@)],
                       k, "verification_failed")]
    /\ UNCHANGED << envVars, pre_patch, cyclesLeft, pc, proposals, queue,
                    applied, failed, status, telemetry, write_lock, repo, apply_outcomes,
                    proposal_timestamps, backoff_seconds, backoff_until, now >>

\* A worker's get_staged_diff returns (or raises); the patch file is written
\* and the optional commit follows.  outcome: "ok", "commit_fails", "raises".
WorkerDiff(c, k, outcome) ==
    /\ pc[c] = "workers"
    /\ k \in 1..Len(rcands[c])
    /\ rcands[c][k].wpc = "diff"
    /\ LET cand == rcands[c][k]
           commits == /\ outcome = "ok" /\ cfg.commit_on_success
                      /\ git_has_staged_changes(cand.tree)
       IN  /\ outcome = "commit_fails" => cfg.commit_on_success
           /\ acts' = [acts EXCEPT ![c] =
                         IF commits THEN AddAct(acts[c], cand.id, "commit")
                         ELSE acts[c]]
           /\ rcands' = [rcands EXCEPT ![c] =
                 CASE outcome = "raises" -> WorkerDone(rcands[c], k, "raised")
                   [] outcome = "commit_fails" ->
                        WorkerDone(rcands[c], k, "git_commit_failed")
                   [] OTHER ->
                        WorkerDone(
                          [rcands[c] EXCEPT ![k].tree =
                              IF commits THEN git_commit(@) ELSE @],
                          k, "applied")]
    /\ UNCHANGED << envVars, pre_patch, cyclesLeft, pc, proposals, queue,
                    applied, failed, status, telemetry, write_lock, repo, apply_outcomes,
                    verify_outcomes, proposal_timestamps, backoff_seconds,
                    backoff_until, now >>

\* The results of asyncio.gather, in queue order.
RECURSIVE AppliedOf(_)
AppliedOf(cands) ==
    IF cands = << >> THEN << >>
    ELSE (IF Head(cands).result = "applied" THEN <<Head(cands).id>> ELSE << >>)
         \o AppliedOf(Tail(cands))

RECURSIVE FailedOf(_)
FailedOf(cands) ==
    IF cands = << >> THEN << >>
    ELSE (IF Head(cands).result = "applied" THEN << >>
          ELSE << <<Head(cands).id,
                    IF Head(cands).result = "raised"
                    THEN "review_processing_failed" ELSE Head(cands).result>> >>)
         \o FailedOf(Tail(cands))

\* gather returns: the results are collected, the worktrees removed unless
\* keep_worktrees, and the cycle ends.
Collect(c) ==
    /\ pc[c] = "workers"
    /\ \A k \in 1..Len(rcands[c]) : rcands[c][k].wpc = "done"
    /\ applied' = [applied EXCEPT ![c] = applied[c] \o AppliedOf(rcands[c])]
    /\ failed' = [failed EXCEPT ![c] = failed[c] \o FailedOf(rcands[c])]
    /\ rcands' = [rcands EXCEPT ![c] = IF cfg.keep_worktrees THEN @ ELSE << >>]
    /\ Finish(c, "success")
    /\ UNCHANGED << envVars, pre_patch, cyclesLeft, proposals, queue, acts,
                    write_lock, repo, apply_outcomes, verify_outcomes,
                    proposal_timestamps, backoff_seconds, backoff_until, now >>

(***************************************************************************)
(* The environment of a cycle.                                             *)
(***************************************************************************)
\* Time passes between two steps.
Tick ==
    /\ now + TickSeconds <= MaxTime
    /\ now' = now + TickSeconds
    /\ UNCHANGED << envVars, pre_patch, cyclesLeft, pc, proposals, queue,
                    applied, failed, status, telemetry, acts, rcands, write_lock, repo,
                    apply_outcomes, verify_outcomes, proposal_timestamps,
                    backoff_seconds, backoff_until >>

cycleVars == << cyclesLeft, pc, proposals, queue, applied, failed, status, telemetry,
                acts, rcands, write_lock, apply_outcomes, verify_outcomes,
                proposal_timestamps, backoff_seconds, backoff_until, now >>

(***************************************************************************)
(* The patch engine called on its own (git_ops.git_apply_patch_atomic).    *)
(***************************************************************************)
\* Every tree the engine can be called in.
AllTrees ==
    { t \in [ committed : SUBSET ProposalIds, staged : SUBSET ProposalIds,
              userMod : BOOLEAN, userUntracked : BOOLEAN,
              ignoredUntracked : BOOLEAN ] :
        t.committed \cap t.staged = {} }

ApplyPatchAtomic(id, fits) ==
    /\ LET r == git_apply_patch_atomic(repo, id, fits) IN
       /\ pre_patch' = repo
       /\ repo' = r.tree
       /\ apply_result' = [ok |-> r.ok, status |-> r.status]
    /\ UNCHANGED << cfg, slots, cycleVars, sandbox_runner, sandbox_argv,
                    sandbox_result, extVars >>

(***************************************************************************)
(* The sandbox runner called on its own (SandboxRunner.run).               *)
(***************************************************************************)
\* run keeps nothing from one call to the next, so a runner's calls are
\* explored one at a time, each from the runner as constructed.
SandboxRun(argv, docker, proc) ==
    /\ sandbox_result = NoRun
    /\ sandbox_argv' = argv
    /\ sandbox_result' = run(sandbox_runner, argv, docker, proc)
    /\ UNCHANGED << cfg, slots, cycleVars, repo, pre_patch, apply_result,
                    sandbox_runner, extVars >>

(***************************************************************************)
(* The supervisor: start(), its periodic scan task and the file watcher's  *)
(* handler (AmbientEventHandler).                                          *)
(***************************************************************************)
\* The paths of the notifications: two watched files and one under .git.
PathA == "a.py"
PathB == "b.py"
PathGit == ".git/index"
WatchedPaths == {PathA, PathB}
AlwaysIgnored == {PathGit}
Paths == WatchedPaths \cup AlwaysIgnored

FileChange(p) == [type |-> "file_change", path |-> p]
PeriodicScanEvent == [type |-> "periodic_scan", path |-> ""]

\* Time is counted from the coordinator's construction, which time.time()
\* puts far more than debounce_seconds after 0.0, the default of
\* _last_event_by_path.get(rel, 0.0).
Epoch == 0 - (DebounceSeconds + 1)

MonitoringSettings ==
    [ max_queue_size : {0, MaxQueue}, debounce_seconds : {DebounceSeconds},
      enabled : {TRUE} ]

\* The settings with monitoring.enabled on and off.
ScanSettings ==
    [ max_queue_size : {MaxQueue}, debounce_seconds : {DebounceSeconds},
      enabled : BOOLEAN ]

\* The longest an unbounded queue is followed.
QueueCap == MaxQueue + 1

\* The supervisor before start() is called.
SupervisorInit(settings) ==
    /\ mon \in settings
    /\ running = FALSE
    /\ sup = "new"
    /\ scan = "off"
    /\ event_queue = << >>
    /\ history = << >>
    /\ last_event_by_path = [p \in Paths |-> Epoch]
    /\ pending_puts = << >>
    /\ fs_events = 0
    /\ fs_last = ""
    /\ monitor_log = << >>
    /\ handled_events = << >>

IdleSupervisor ==
    SupervisorInit({[max_queue_size |-> MaxQueue, debounce_seconds |-> DebounceSeconds,
                     enabled |-> TRUE]})

\* asyncio.Queue.full(): a maxsize of zero or less is an unbounded queue
QueueFull(q, maxsize) == maxsize > 0 /\ Len(q) >= maxsize

\* Debounced, were the comparison dropped
Debounced_never(current_time, last, debounce) == FALSE

\* `if current_time - last < self.debounce_seconds: return`
Debounced(current_time, last, debounce) == current_time - last < debounce

\* Everything of the coordinator but cyclesLeft and the clock.
coordVars == << cfg, slots, pc, proposals, queue, applied, failed, status, telemetry,
                acts, rcands, write_lock, repo, pre_patch, apply_result,
                apply_outcomes, verify_outcomes, proposal_timestamps,
                backoff_seconds, backoff_until, sandbox_runner, sandbox_argv,
                sandbox_result, agentVars, pureVars, policyVars >>

\* start() is called: running is set; with monitoring.enabled the observer
\* and the periodic scan task are started; the main loop is entered.
StartSupervisor ==
    /\ sup = "new"
    /\ running' = TRUE
    /\ sup' = "top"
    /\ scan' = IF mon.enabled THEN "sleeping" ELSE "off"
    /\ UNCHANGED << coordVars, handled_events, cyclesLeft, now, mon, event_queue, history,
                    last_event_by_path, pending_puts, fs_events, fs_last, monitor_log >>

\* stop(), or the handler of SIGINT / SIGTERM.
SignalStop ==
    /\ sup \in {"top", "waiting", "handling"}
    /\ running
    /\ running' = FALSE
    /\ UNCHANGED << coordVars, handled_events, cyclesLeft, now, mon, sup, scan, event_queue,
                    history, last_event_by_path, pending_puts, fs_events,
                    fs_last, monitor_log >>

\* LoopTop, were the backoff not looked at
LoopTop_no_backoff ==
    /\ sup = "top"
    /\ running
    /\ sup' = "waiting"
    /\ UNCHANGED << coordVars, handled_events, cyclesLeft, now, mon, running, scan,
                    event_queue, history, last_event_by_path, pending_puts,
                    fs_events, fs_last, monitor_log >>

\* `while self._running` with running true and no backoff pending: the loop
\* waits for an event.  (During a backoff it sleeps and comes back here.)
LoopTop ==
    /\ sup = "top"
    /\ running
    /\ now >= backoff_until
    /\ sup' = "waiting"
    /\ UNCHANGED << coordVars, handled_events, cyclesLeft, now, mon, running, scan,
                    event_queue, history, last_event_by_path, pending_puts,
                    fs_events, fs_last, monitor_log >>

\* wait_for(event_queue.get(), 1.0) times out: `continue`.
GetTimesOut ==
    /\ sup = "waiting"
    /\ event_queue = << >>
    /\ sup' = "top"
    /\ UNCHANGED << coordVars, handled_events, cyclesLeft, now, mon, running, scan,
                    event_queue, history, last_event_by_path, pending_puts,
                    fs_events, fs_last, monitor_log >>

\* wait_for returns an event and _handle_event is called with it.
GetEvent ==
    /\ sup = "waiting"
    /\ event_queue # << >>
    /\ Len(history) < MaxCycles
    /\ event_queue' = Tail(event_queue)
    /\ handled_events' = Append(handled_events, Head(event_queue))
    /\ cyclesLeft' = 1
    /\ sup' = "handling"
    /\ UNCHANGED << coordVars, now, mon, running, scan, history,
                    last_event_by_path, pending_puts, fs_events, fs_last, monitor_log >>

\* _handle_event returns its result to the loop.
HandleReturns(c) ==
    /\ sup = "handling"
    /\ c \in slots
    /\ cyclesLeft = 0
    /\ pc[c] = "done"
    /\ history' = Append(history, status[c])
    /\ sup' = "top"
    /\ UNCHANGED << coordVars, handled_events, cyclesLeft, now, mon, running, scan,
                    event_queue, last_event_by_path, pending_puts, fs_events,
                    fs_last, monitor_log >>

\* `while self._running` with running false: the finally block cancels the
\* periodic task and stops the observer, and start() returns.
SupervisorReturns ==
    /\ sup = "top"
    /\ ~running
    /\ sup' = "returned"
    /\ scan' = "off"
    /\ UNCHANGED << coordVars, handled_events, cyclesLeft, now, mon, running, event_queue,
                    history, last_event_by_path, pending_puts, fs_events,
                    fs_last, monitor_log >>

\* _periodic_scan_loop: the sleep is over, a periodic_scan event is put
\* (dropped without a trace when the queue is full) and running is tested.
ScanWake ==
    /\ scan = "sleeping"
    /\ Len(event_queue) < QueueCap
    /\ event_queue' = IF QueueFull(event_queue, mon.max_queue_size)
                      THEN event_queue
                      ELSE Append(event_queue, PeriodicScanEvent)
    /\ scan' = IF running THEN "sleeping" ELSE "off"
    /\ UNCHANGED << coordVars, handled_events, cyclesLeft, now, mon, running, sup, history,
                    last_event_by_path, pending_puts, fs_events, fs_last, monitor_log >>

MonitorEntry(type, reason, p) == [type |-> type, reason |-> reason, path |-> p]

\* on_any_event on the observer's thread, for a file's notification.
OnAnyEvent(p) ==
    /\ mon.enabled
    /\ sup \in {"top", "waiting", "handling"}
    /\ fs_events < MaxFsEvents
    /\ fs_events' = fs_events + 1
    /\ fs_last' = p
    /\ IF p \in AlwaysIgnored
       THEN /\ monitor_log' = Append(monitor_log,
                                     MonitorEntry("event_dropped", "always_ignore", p))
            /\ UNCHANGED << last_event_by_path, pending_puts >>
       ELSE IF Debounced(now, last_event_by_path[p], mon.debounce_seconds)
       THEN UNCHANGED << monitor_log, last_event_by_path, pending_puts >>
       ELSE /\ last_event_by_path' = [last_event_by_path EXCEPT ![p] = now]
            /\ pending_puts' = Append(pending_puts, p)
            /\ UNCHANGED monitor_log
    /\ UNCHANGED << coordVars, handled_events, cyclesLeft, now, mon, running, sup, scan,
                    event_queue, history >>

\* The loop runs the oldest _put_nowait callback.
RunPut ==
    /\ pending_puts # << >>
    /\ Len(event_queue) < QueueCap
    /\ LET p == Head(pending_puts) IN
       IF QueueFull(event_queue, mon.max_queue_size)
       THEN /\ monitor_log' = Append(monitor_log,
                                     MonitorEntry("event_dropped", "queue_full", p))
            /\ UNCHANGED event_queue
       ELSE /\ event_queue' = Append(event_queue, FileChange(p))
            /\ monitor_log' = Append(monitor_log, MonitorEntry("event_enqueued", "", p))
    /\ pending_puts' = Tail(pending_puts)
    /\ UNCHANGED << coordVars, handled_events, cyclesLeft, now, mon, running, sup, scan,
                    history, last_event_by_path, fs_events, fs_last >>

\* A second passes on the watcher's clock.
WatchClock ==
    /\ now < MaxWatchTime
    /\ now' = now + 1
    /\ UNCHANGED << coordVars, handled_events, cyclesLeft, extVars >>

(***************************************************************************)
(* _generate_proposals, agent by agent.                                    *)
(***************************************************************************)
\* What one agent's propose call can come to in gather's result list: the
\* exception it raised, or the list it returned.
RaisedResult == [raised |-> TRUE, list |-> << >>]

AgentLists(a) ==
    { s \in IdSeqs :
        /\ \A i \in 1..Len(s) : ProposalById(s[i]).agent = a
        /\ \A i, j \in 1..Len(s) : i # j => s[i] # s[j] }

AgentResults(a) ==
    {RaisedResult} \cup {[raised |-> FALSE, list |-> s] : s \in AgentLists(a)}

RECURSIVE TotalLen(_)
TotalLen(results) ==
    IF results = << >> THEN 0
    ELSE Len(Head(results).list) + TotalLen(Tail(results))

GatherResults ==
    { r \in [1..Len(AgentsEnabled) -> UNION {AgentResults(AgentsEnabled[i]) :
                                               i \in 1..Len(AgentsEnabled)}] :
        /\ \A i \in 1..Len(AgentsEnabled) : r[i] \in AgentResults(AgentsEnabled[i])
        /\ TotalLen(r) <= MaxProposals }

NoGather == [i \in 1..Len(AgentsEnabled) |-> [raised |-> FALSE, list |-> << >>]]

AgentsInit(results) ==
    /\ agent_results \in results
    /\ agent_log = << >>

IdleAgents == AgentsInit({NoGather})

\* generate_proposals, were one agent's exception to empty the whole list
RECURSIVE generate_proposals_all_or_nothing(_)
generate_proposals_all_or_nothing(results) ==
    IF \E i \in 1..Len(results) : results[i].raised THEN << >>
    ELSE IF results = << >> THEN << >>
    ELSE Head(results).list \o generate_proposals_all_or_nothing(Tail(results))

\* The loop over proposal_lists: an exception is logged and skipped, a
\* non-empty list is appended.
RECURSIVE generate_proposals(_)
generate_proposals(results) ==
    IF results = << >> THEN << >>
    ELSE (IF Head(results).raised THEN << >>
          ELSE IF Head(results).list # << >> THEN Head(results).list
          ELSE << >>)
         \o generate_proposals(Tail(results))

\* The agent_error entries of that loop, in the order of self.agents.
RECURSIVE agent_errors(_, _)
agent_errors(results, agents) ==
    IF results = << >> THEN << >>
    ELSE (IF Head(results).raised
          THEN << [type |-> "agent_error", agent |-> Head(agents)] >>
          ELSE << >>)
         \o agent_errors(Tail(results), Tail(agents))

\* build_context returns and gather returns agent_results.
Gather(c) ==
    /\ Generated(c, generate_proposals(agent_results))
    /\ agent_log' = agent_log \o agent_errors(agent_results, AgentsEnabled)
    /\ UNCHANGED << cfg, slots, apply_result, sandbox_runner, sandbox_argv,
                    sandbox_result, supVars, agent_results, pureVars,
                    policyVars >>

\* The coordinator, its supervisor and the state of its components.
coreVars == << cfg, slots, cycleVars, repo, pre_patch, apply_result,
               sandbox_runner, sandbox_argv, sandbox_result, supVars,
               agentVars, policyVars >>

(***************************************************************************)
(* The webhook approval handler (approval.py).                             *)
(***************************************************************************)
\* The characters of the strings a webhook answers with
ApprovedChars == {" ", "y", "Y", "e", "s", "1"}

ApprovedStrings == UNION { [1..n -> ApprovedChars] : n \in 0..MaxApprovedLen }

\* str.strip(): leading and trailing blanks removed
RECURSIVE LStrip(_)
LStrip(s) == IF s # << >> /\ Head(s) = " " THEN LStrip(Tail(s)) ELSE s

RECURSIVE RStrip(_)
RStrip(s) ==
    IF s # << >> /\ s[Len(s)] = " " THEN RStrip(SubSeq(s, 1, Len(s) - 1)) ELSE s

Strip(s) == RStrip(LStrip(s))

\* `{"true", "1", "yes", "y", "approve", "approved"}`
AFFIRMATIVE ==
    { <<"t", "r", "u", "e">>, <<"1">>, <<"y", "e", "s">>, <<"y">>,
      <<"a", "p", "p", "r", "o", "v", "e">>,
      <<"a", "p", "p", "r", "o", "v", "e", "d">> }

\* The value under "approved" of a JSON object: absent, or of one of the
\* JSON types.
ApprovedValues ==
    {[type |-> "absent"], [type |-> "null"], [type |-> "list"]}
      \cup [type : {"bool"}, val : BOOLEAN]
      \cup [type : {"int"}, val : 0..2]
      \cup [type : {"float"}, val : {1}]
      \cup [type : {"str"}, val : ApprovedStrings]

\* What res.json() gives: it raises, or returns a JSON value of some type.
Bodies ==
    [json : {"unparsable", "list", "str", "number", "null"}]
      \cup [json : {"object"}, approved : ApprovedValues]

\* What the POST comes to: an exception of httpx (connection error,
\* timeout), or a response.
WebhookResponses ==
    [net : {"error", "timeout"}]
      \cup [net : {"ok"}, status_code : {200, 403, 500}, body : Bodies]

\* The lines after `approved = data.get("approved", False)`
Recognise(value) ==
    CASE value.type = "absent" -> "false"
      [] value.type = "bool" -> IF value.val THEN "true" ELSE "false"
      [] value.type = "null" -> "false"
      [] value.type = "str" ->
           IF Lower(Strip(value.val)) \in AFFIRMATIVE THEN "true" ELSE "false"
      [] value.type = "int" -> IF value.val = 1 THEN "true" ELSE "false"
      [] OTHER -> "false"

\* WebhookApprovalHandler.request_approval: "true", "false", or "raise" when
\* an exception leaves it.
request_approval(res) ==
    IF res.net # "ok" THEN "false"
    ELSE IF res.status_code # 200 THEN "false"
    ELSE IF res.body.json = "unparsable" THEN "false"
    ELSE IF res.body.json # "object"
    THEN "raise"          \* data.get: a list, str, number or None has no get
    ELSE Recognise(res.body.approved)

NoAnswer == "none"

WebhookInit(responses) ==
    /\ webhook_response \in responses
    /\ webhook_answer = NoAnswer

IdleWebhook == WebhookInit({[net |-> "error"]})

\* One call of request_approval.
RequestApproval ==
    /\ webhook_answer = NoAnswer
    /\ webhook_answer' = request_approval(webhook_response)
    /\ UNCHANGED << webhook_response, coreVars, engineVars, pollinateVars,
                    parseVars, kimiVars >>

(***************************************************************************)
(* An agent's propose (agents/base.py).                                    *)
(***************************************************************************)
\* What the "agent" key of an item of the model's JSON holds: nothing, the
\* name of an agent variant, or another string.
ItemAgents == {"absent", "SecurityGuardian", "StyleEnforcer", "gpt"}

\* An item of the array: an object, with all the required keys and a valid
\* risk_level or not, or a value that is not an object.
Items ==
    [kind : {"object"}, agent : ItemAgents,
     fields : {"complete", "missing_title", "bad_risk_level"}]
      \cup {[kind |-> "scalar"]}

ItemLists == UNION { [1..n -> Items] : n \in 0..MaxItems }

\* The content of the reply: a JSON array as it is, inside a markdown code
\* block, or with prose around it; a JSON object; text with no JSON in it.
Contents ==
    [shape : {"array", "fenced", "embedded", "object", "garbage"},
     items : ItemLists]

\* What the two regular expressions and json.loads make of the content:
\* the list, or no list.
LoadedList(content) ==
    CASE content.shape = "fenced" -> [list |-> TRUE, data |-> content.items]
      [] content.shape = "array" -> [list |-> TRUE, data |-> content.items]
      [] content.shape = "embedded" -> [list |-> TRUE, data |-> content.items]
      [] OTHER -> [list |-> FALSE, data |-> << >>]

\* `item.get("agent", self.__class__.__name__)`
AgentField(item, class_name) ==
    IF item.agent = "absent" THEN class_name ELSE item.agent

\* The loop over the items: the agent fields of the proposals built, and
\* whether an exception left the loop (AttributeError: only KeyError,
\* TypeError and ValueError are caught).
RECURSIVE BuildProposals(_, _)
BuildProposals(data, class_name) ==
    IF data = << >> THEN [raised |-> FALSE, agents |-> << >>]
    ELSE IF Head(data).kind = "scalar" THEN [raised |-> TRUE, agents |-> << >>]
    ELSE LET rest == BuildProposals(Tail(data), class_name) IN
         IF rest.raised THEN rest
         ELSE IF Head(data).fields = "complete"
         THEN [raised |-> FALSE,
               agents |-> << AgentField(Head(data), class_name) >> \o rest.agents]
         ELSE rest

\* SpecialistAgent._parse_proposals
parse_proposals(content, class_name) ==
    LET loaded == LoadedList(content) IN
    IF ~loaded.list THEN [raised |-> FALSE, agents |-> << >>]
    ELSE BuildProposals(loaded.data, class_name)

NotParsed == [raised |-> FALSE, agents |-> <<"none">>]

ParseInit(agents, contents) ==
    /\ parse_agent \in agents
    /\ parse_content \in contents
    /\ parse_out = NotParsed

IdleParse ==
    ParseInit({AgentsEnabled[1]}, {[shape |-> "garbage", items |-> << >>]})

\* SpecialistAgent.propose, from the reply of the model on.
Propose ==
    /\ parse_out = NotParsed
    /\ parse_out' = parse_proposals(parse_content, parse_agent)
    /\ UNCHANGED << parse_agent, parse_content, coreVars, engineVars,
                    webhookVars, pollinateVars, kimiVars >>

(***************************************************************************)
(* Cross-pollination (cross_pollination.py).                               *)
(***************************************************************************)
TitleFix == <<"F", "i", "x">>
TitleMove == <<"M", "o", "v", "e">>
TitleHash == <<"H", "a", "s", "h">>
TitleTrim == <<"T", "r", "i", "m">>
TitleFixPadded == <<" ", "f", "i", "x">>

\* The proposals handed to advanced_cross_pollinate: those of ProposalPool
\* with a title and a diff each, and a fifth one that differs from the first
\* in its risk level and in the spelling of its title only, and a sixth one
\* with the score of the first, more lines and another file.
PollinationPool ==
    { [id |-> 1, agent |-> "StyleEnforcer", title |-> TitleFix, diff |-> 1,
       risk_level |-> "low", files_touched |-> <<MainPy>>,
       estimated_loc_change |-> 2, tags |-> <<TagStyle>>],
      [id |-> 2, agent |-> "RefactorArchitect", title |-> TitleMove, diff |-> 2,
       risk_level |-> "medium", files_touched |-> <<MainPy, UtilPy>>,
       estimated_loc_change |-> -500, tags |-> <<TagRefactor>>],
      [id |-> 3, agent |-> "SecurityGuardian", title |-> TitleHash, diff |-> 3,
       risk_level |-> "critical", files_touched |-> <<AuthPy>>,
       estimated_loc_change |-> 4, tags |-> <<TagSecurity>>],
      [id |-> 4, agent |-> "StyleEnforcer", title |-> TitleTrim, diff |-> 4,
       risk_level |-> "low", files_touched |-> <<UtilPy>>,
       estimated_loc_change |-> -501, tags |-> << >>],
      [id |-> 5, agent |-> "StyleEnforcer", title |-> TitleFixPadded, diff |-> 1,
       risk_level |-> "high", files_touched |-> <<MainPy>>,
       estimated_loc_change |-> 2, tags |-> <<TagStyle>>],
      [id |-> 6, agent |-> "RefactorArchitect", title |-> TitleMove, diff |-> 6,
       risk_level |-> "low", files_touched |-> <<AuthPy>>,
       estimated_loc_change |-> 24, tags |-> <<TagStyle>>] }

PollinationIds == {p.id : p \in PollinationPool}
Pollinated(i) == CHOOSE p \in PollinationPool : p.id = i

PollinationLists == UNION { [1..n -> PollinationIds] : n \in 0..MaxPollinate }

\* base_proposals, and refined_lists as two lists: `flat` cut at `cut`.
PollinationInputs ==
    { x \in [base : PollinationLists, flat : PollinationLists, cut : 0..MaxPollinate] :
        /\ Len(x.base) + Len(x.flat) <= MaxPollinate
        /\ x.cut <= Len(x.flat) }

refined_lists(x) ==
    << SubSeq(x.flat, 1, x.cut), SubSeq(x.flat, x.cut + 1, Len(x.flat)) >>

\* _flatten_or_fallback
RECURSIVE Flatten(_)
Flatten(lists) ==
    IF lists = << >> THEN << >> ELSE Head(lists) \o Flatten(Tail(lists))

flatten_or_fallback(base_proposals, lists) ==
    IF Flatten(lists) # << >> THEN Flatten(lists) ELSE base_proposals

\* agent.lower() of the agent names that occur, and their order as strings
AgentLower(a) ==
    CASE a = "StyleEnforcer" -> "styleenforcer"
      [] a = "RefactorArchitect" -> "refactorarchitect"
      [] a = "SecurityGuardian" -> "securityguardian"

LowerNamesSorted == <<"refactorarchitect", "securityguardian", "styleenforcer">>

NameRank(name) ==
    CHOOSE i \in 1..Len(LowerNamesSorted) : LowerNamesSorted[i] = name

\* The order of the characters of the titles
TitleAlphabet ==
    <<" ", "a", "e", "f", "h", "i", "m", "o", "r", "s", "t", "v", "x">>

CharRank(ch) == CHOOSE i \in 1..Len(TitleAlphabet) : TitleAlphabet[i] = ch

\* s < t for strings
RECURSIVE StrLess(_, _)
StrLess(s, t) ==
    IF t = << >> THEN FALSE
    ELSE IF s = << >> THEN TRUE
    ELSE IF Head(s) # Head(t) THEN CharRank(Head(s)) < CharRank(Head(t))
    ELSE StrLess(Tail(s), Tail(t))

\* The key of _dedupe; the set of the files stands for the joined sorted
\* list, the diff for its digest.
DedupeKey(p) ==
    << AgentLower(p.agent), Lower(Strip(p.title)),
       {p.files_touched[k] : k \in 1..Len(p.files_touched)}, p.diff >>

\* _dedupe: the first proposal of every key, in order
RECURSIVE Dedupe(_, _)
Dedupe(ids, seen) ==
    IF ids = << >> THEN << >>
    ELSE LET key == DedupeKey(Pollinated(Head(ids))) IN
         IF key \in seen THEN Dedupe(Tail(ids), seen)
         ELSE << Head(ids) >> \o Dedupe(Tail(ids), seen \cup {key})

dedupe(ids) == Dedupe(ids, {})

FileSet(i) ==
    LET p == Pollinated(i) IN {p.files_touched[k] : k \in 1..Len(p.files_touched)}

\* Overlaps, were no two proposals ever taken to overlap
Overlaps_never(i, j) == FALSE

\* `if file_sets[i] & file_sets[j]`
Overlaps(i, j) == FileSet(i) \cap FileSet(j) # {}

\* adj[i]: the positions of the proposals that overlap with the one at i
Adj(ids, i) ==
    {j \in 1..Len(ids) : j # i /\ Overlaps(ids[i], ids[j])}

\* A set of positions as a list in ascending order (the order in which a
\* set of small integers is iterated)
RECURSIVE Ascending(_)
Ascending(S) ==
    IF S = {} THEN << >>
    ELSE LET m == CHOOSE x \in S : \A y \in S : x <= y IN
         << m >> \o Ascending(S \ {m})

\* The `while stack` loop: pop, append to the component, push the unseen
\* neighbours.
RECURSIVE Visit(_, _, _, _)
Visit(ids, stack, seen, component) ==
    IF stack = << >> THEN [component |-> component, seen |-> seen]
    ELSE LET cur == stack[Len(stack)]
             fresh == Adj(ids, cur) \ seen
         IN  Visit(ids, SubSeq(stack, 1, Len(stack) - 1) \o Ascending(fresh),
                   seen \cup fresh, component \o << cur >>)

\* The `for i in range(n)` loop of _conflict_clusters, from position i on
RECURSIVE Clusters(_, _, _)
Clusters(ids, i, seen) ==
    IF i > Len(ids) THEN << >>
    ELSE IF i \in seen THEN Clusters(ids, i + 1, seen)
    ELSE LET v == Visit(ids, << i >>, seen \cup {i}, << >>) IN
         << [k \in 1..Len(v.component) |-> ids[v.component[k]]] >>
            \o Clusters(ids, i + 1, v.seen)

conflict_clusters(ids) == Clusters(ids, 1, {})

RiskWeight(level) ==
    CASE level = "critical" -> 40
      [] level = "high" -> 30
      [] level = "medium" -> 20
      [] level = "low" -> 10
      [] OTHER -> 0

TagBonus(tag) ==
    CASE tag = <<"s", "e", "c", "u", "r", "i", "t", "y">> -> 6
      [] tag = <<"a", "u", "t", "h">> -> 5
      [] tag = <<"t", "e", "s", "t">> -> 4
      [] tag = <<"p", "e", "r", "f", "o", "r", "m", "a", "n", "c", "e">> -> 4
      [] tag = <<"r", "e", "f", "a", "c", "t", "o", "r">> -> 3
      [] tag = <<"s", "t", "y", "l", "e">> -> 1
      [] OTHER -> 0

RECURSIVE TagScore(_)
TagScore(tags) ==
    IF tags = << >> THEN 0 ELSE TagBonus(Lower(Head(tags))) + TagScore(Tail(tags))

\* _proposal_score
proposal_score(p) ==
    RiskWeight(p.risk_level) + TagScore(p.tags)
      - (Min(Abs(p.estimated_loc_change), 500) \div 25)

\* The sort key of _select_cluster_winners: p before q
RankedBefore(p, q) ==
    LET sp == proposal_score(p)
        sq == proposal_score(q)
        lp == Abs(p.estimated_loc_change)
        lq == Abs(q.estimated_loc_change)
        ap == NameRank(AgentLower(p.agent))
        aq == NameRank(AgentLower(q.agent))
    IN  \/ sp > sq
        \/ sp = sq /\ lp < lq
        \/ sp = sq /\ lp = lq /\ ap < aq
        \/ sp = sq /\ lp = lq /\ ap = aq /\ StrLess(Lower(p.title), Lower(q.title))

\* The sort key of the last round: p before q
FinalBefore(p, q) ==
    LET sp == proposal_score(p)
        sq == proposal_score(q)
        ap == NameRank(AgentLower(p.agent))
        aq == NameRank(AgentLower(q.agent))
    IN  \/ sp > sq
        \/ sp = sq /\ ap < aq
        \/ sp = sq /\ ap = aq /\ StrLess(Lower(p.title), Lower(q.title))

\* sorted(): stable.  The element goes behind those it is not before.
RECURSIVE InsertRanked(_, _)
InsertRanked(sorted, i) ==
    IF sorted = << >> THEN << i >>
    ELSE IF RankedBefore(Pollinated(i), Pollinated(Head(sorted)))
    THEN << i >> \o sorted
    ELSE << Head(sorted) >> \o InsertRanked(Tail(sorted), i)

RECURSIVE SortRanked(_, _)
SortRanked(ids, sorted) ==
    IF ids = << >> THEN sorted
    ELSE SortRanked(Tail(ids), InsertRanked(sorted, Head(ids)))

RECURSIVE InsertFinal(_, _)
InsertFinal(sorted, i) ==
    IF sorted = << >> THEN << i >>
    ELSE IF FinalBefore(Pollinated(i), Pollinated(Head(sorted)))
    THEN << i >> \o sorted
    ELSE << Head(sorted) >> \o InsertFinal(Tail(sorted), i)

RECURSIVE SortFinal(_, _)
SortFinal(ids, sorted) ==
    IF ids = << >> THEN sorted
    ELSE SortFinal(Tail(ids), InsertFinal(sorted, Head(ids)))

\* _select_cluster_winners
RECURSIVE select_cluster_winners(_)
select_cluster_winners(clusters) ==
    IF clusters = << >> THEN << >>
    ELSE << Head(SortRanked(Head(clusters), << >>)) >>
            \o select_cluster_winners(Tail(clusters))

\* advanced_cross_pollinate(...).proposals
advanced_cross_pollinate(base_proposals, lists) ==
    LET round1 == flatten_or_fallback(base_proposals, lists)
        round2 == dedupe(round1)
        clusters == conflict_clusters(round2)
        round3 == select_cluster_winners(clusters)
    IN  SortFinal(round3, << >>)

NotPollinated == << 0 >>

PollinateInit(inputs) ==
    /\ pollinate_in \in inputs
    /\ pollinate_out = NotPollinated

IdlePollinate == PollinateInit({[base |-> << >>, flat |-> << >>, cut |-> 0]})

\* One call of advanced_cross_pollinate.
Pollinate ==
    /\ pollinate_out = NotPollinated
    /\ pollinate_out' =
         advanced_cross_pollinate(pollinate_in.base, refined_lists(pollinate_in))
    /\ UNCHANGED << pollinate_in, coreVars, engineVars, webhookVars, parseVars,
                    kimiVars >>

(***************************************************************************)
(* The patch engine on the text of one file (git_ops.py): `git apply` in   *)
(* reverse-check, check and apply, then the in-process fallback.           *)
(* A file is a sequence of lines; a diff has one hunk for that file whose  *)
(* header counts agree with its lines, with at least one line to find and  *)
(* at least one line to leave.                                             *)
(***************************************************************************)
Lines == {"a", "b"}

FileTexts == UNION { [1..n -> Lines] : n \in 0..MaxFileLines }

\* A hunk line: its first character and the rest.
HunkLines == [tag : {" ", "-", "+"}, text : Lines]

HunkBodies == UNION { [1..n -> HunkLines] : n \in 0..MaxHunkLines }

\* git_header: the text has a `diff --git a/f b/f` line; file_headers: it
\* has the `--- a/f` and `+++ b/f` lines; start: the hunk's old start.
AllDiffs ==
    [ git_header : BOOLEAN, file_headers : BOOLEAN, start : 1..MaxFileLines,
      lines : HunkBodies ]

RECURSIVE Select(_, _)
Select(body, tags) ==
    IF body = << >> THEN << >>
    ELSE (IF Head(body).tag \in tags THEN <<Head(body).text>> ELSE << >>)
         \o Select(Tail(body), tags)

\* the lines the hunk expects to find, and the lines it leaves
OldSide(d) == Select(d.lines, {" ", "-"})
NewSide(d) == Select(d.lines, {" ", "+"})

\* `text` has `part` at 1-based line `at`
MatchesAt(text, part, at) ==
    /\ at >= 1
    /\ at - 1 + Len(part) <= Len(text)
    /\ \A k \in 1..Len(part) : text[at - 1 + k] = part[k]

Splice(text, at, n, part) ==
    SubSeq(text, 1, at - 1) \o part \o SubSeq(text, at + n, Len(text))

Diffs == {d \in AllDiffs : OldSide(d) # << >> /\ NewSide(d) # << >>}

\* The hunk ends with a context line
TrailingContext(d) == d.lines # << >> /\ d.lines[Len(d.lines)].tag = " "

\* Where `git apply` may place a hunk: where its lines are found; a hunk
\* that starts at line 1 only at the beginning of the file, a hunk without
\* trailing context only at its end.
Offsets(text, part, d) ==
    {at \in 1..(Len(text) + 1) :
        /\ MatchesAt(text, part, at)
        /\ d.start <= 1 => at = 1
        /\ ~TrailingContext(d) => at - 1 + Len(part) = Len(text)}

Nearest(s, start) ==
    CHOOSE at \in s : \A other \in s :
        \/ Abs(at - start) < Abs(other - start)
        \/ Abs(at - start) = Abs(other - start) /\ at <= other

\* The nearest of them to the hunk's start line; 0 when there is none.
GitPlace(text, part, d) ==
    IF Offsets(text, part, d) = {} THEN 0
    ELSE Nearest(Offsets(text, part, d), d.start)

\* git reads a diff only with its file headers, and takes a hunk that
\* changes nothing for no patch
GitReads(d) ==
    /\ d.file_headers
    /\ \E k \in 1..Len(d.lines) : d.lines[k].tag # " "

\* git apply --check -R
ReverseApplies(text, d) == GitReads(d) /\ GitPlace(text, NewSide(d), d) # 0

\* git apply --check, git apply
ForwardApplies(text, d) == GitReads(d) /\ GitPlace(text, OldSide(d), d) # 0

GitApply(text, d) ==
    Splice(text, GitPlace(text, OldSide(d), d), Len(OldSide(d)), NewSide(d))

EngineFailed == [ok |-> FALSE, status |-> "failed", text |-> << >>]

EngineOk(st, text) == [ok |-> TRUE, status |-> st, text |-> text]

\* The hunk walk of the fallback: <<ok, new_lines, idx>> after the hunk's
\* lines, from new_lines and idx (0-based) before them.
RECURSIVE Walk(_, _, _, _)
Walk(original, body, new_lines, idx) ==
    IF body = << >> THEN <<TRUE, new_lines, idx>>
    ELSE LET h == Head(body) IN
         IF h.tag = "+"
         THEN Walk(original, Tail(body), Append(new_lines, h.text), idx)
         ELSE IF idx >= Len(original) \/ original[idx + 1] # h.text
         THEN <<FALSE, new_lines, idx>>
         ELSE IF h.tag = " "
         THEN Walk(original, Tail(body), Append(new_lines, original[idx + 1]), idx + 1)
         ELSE Walk(original, Tail(body), new_lines, idx + 1)

\* `if h_start == 1 and len(original_lines) == h_count` for a single hunk
WholeFile(original, d) ==
    /\ d.lines # << >>
    /\ d.start = 1
    /\ Len(original) = Len(OldSide(d))

\* apply_unified_diff_fallback and the checks on its result.  Without a
\* `diff --git` line no file is found and the patch counts as empty.
apply_unified_diff_fallback(original, d) ==
    IF ~d.git_header THEN EngineFailed
    ELSE IF WholeFile(original, d) THEN EngineOk("applied", NewSide(d))
    ELSE LET h_start_idx == Max(d.start - 1, 0)
             w == Walk(original, d.lines,
                       SubSeq(original, 1, Min(h_start_idx, Len(original))),
                       h_start_idx)
         IN  IF ~w[1] THEN EngineFailed
             ELSE EngineOk("applied",
                           w[2] \o SubSeq(original, Min(w[3], Len(original)) + 1,
                                          Len(original)))

\* apply_with_git: reverse check, check and apply (the three-way attempt
\* has no blob to work from and fails where the plain one does), fallback.
apply_with_git(original, d) ==
    IF ReverseApplies(original, d) THEN EngineOk("already_applied", original)
    ELSE IF ForwardApplies(original, d) THEN EngineOk("applied", GitApply(original, d))
    ELSE apply_unified_diff_fallback(original, d)

\* The body of git_apply_patch_atomic: the fallback first when preferred.
apply_text(original, d, prefer) ==
    IF prefer /\ apply_unified_diff_fallback(original, d).ok
    THEN apply_unified_diff_fallback(original, d)
    ELSE apply_with_git(original, d)

\* One step of the engine: a git command on a candidate diff at a strip
\* level, or the in-process fallback on a candidate.
Step(cand, strip, kind) == [candidate |-> cand, strip |-> strip, kind |-> kind]

GitKinds == {"reverse_check", "check", "apply", "three_way"}

\* strip_levels = [strip_primary, 1 - strip_primary]
StripLevels == {"primary", "inverted"}

EngineSteps ==
    { Step(cand, strip, kind) : cand \in 1..2, strip \in StripLevels, kind \in GitKinds }
      \cup { Step(cand, "none", "fallback") : cand \in 1..2 }

\* One round of `for strip in strip_levels`: <<returned, steps run>>.
StripSteps(cand, strip, good) ==
    LET rev == Step(cand, strip, "reverse_check")
        chk == Step(cand, strip, "check")
        app == Step(cand, strip, "apply")
        tw == Step(cand, strip, "three_way")
        forward == IF chk \in good THEN <<rev, chk, app>> ELSE <<rev, chk>>
    IN  IF rev \in good THEN <<TRUE, <<rev>>>>
        ELSE IF chk \in good /\ app \in good THEN <<TRUE, forward>>
        ELSE <<tw \in good, Append(forward, tw)>>

\* apply_with_git(candidate): both strip levels, then the fallback on the
\* same candidate; FALSE when it raises PatchApplyError.
apply_with_git_steps(cand, good) ==
    LET p == StripSteps(cand, "primary", good)
        i == StripSteps(cand, "inverted", good)
        fb == Step(cand, "none", "fallback")
    IN  IF p[1] THEN p
        ELSE IF i[1] THEN <<TRUE, p[2] \o i[2]>>
        ELSE <<fb \in good, p[2] \o i[2] \o <<fb>>>>

\* The body of git_apply_patch_atomic: the preferred fallback, then
\* `for candidate in candidates`.
engine_steps(good, fixed, prefer) ==
    LET pre == IF prefer THEN <<Step(1, "none", "fallback")>> ELSE << >>
        c1 == apply_with_git_steps(1, good)
        c2 == apply_with_git_steps(2, good)
    IN  IF prefer /\ Step(1, "none", "fallback") \in good
        THEN [ok |-> TRUE, steps |-> pre]
        ELSE IF c1[1] \/ ~fixed THEN [ok |-> c1[1], steps |-> pre \o c1[2]]
        ELSE [ok |-> c2[1], steps |-> pre \o c1[2] \o c2[2]]

NotRun == [ok |-> FALSE, steps |-> << >>]

\* At most MaxGood of the steps succeed.
GitOutcomes ==
    [ good : {g \in SUBSET EngineSteps : Cardinality(g) <= MaxGood}, fixed : BOOLEAN ]

StrategyInit(outcomes, prefers) ==
    /\ wt = [head |-> << >>, file |-> << >>]
    /\ diff_in = [git_header |-> FALSE, file_headers |-> FALSE, start |-> 1, lines |-> << >>]
    /\ engine_log = << >>
    /\ prefer_fallback \in prefers
    /\ git_outcome \in outcomes
    /\ strategy_trace = NotRun

\* One call of git_apply_patch_atomic, by the steps it runs.
RunStrategies ==
    /\ strategy_trace = NotRun
    /\ strategy_trace' = engine_steps(git_outcome.good, git_outcome.fixed, prefer_fallback)
    /\ strategy_trace' # NotRun
    /\ UNCHANGED << wt, diff_in, prefer_fallback, engine_log, git_outcome,
                    coreVars, webhookVars, pollinateVars, parseVars, kimiVars >>

\* A clean repository with one tracked file.
TextTrees == {[head |-> f, file |-> f] : f \in FileTexts}

EngineInit(trees, diffs, prefers) ==
    /\ wt \in trees
    /\ diff_in \in diffs
    /\ prefer_fallback \in prefers
    /\ engine_log = << >>
    /\ git_outcome = [good |-> {}, fixed |-> FALSE]
    /\ strategy_trace = NotRun

NoDiff == [git_header |-> FALSE, file_headers |-> FALSE, start |-> 1, lines |-> << >>]

IdleEngine == EngineInit({[head |-> << >>, file |-> << >>]}, {NoDiff}, {FALSE})

\* git_apply_patch_atomic(root, diff_in): on success the file is written and
\* staged, on failure the tree is reset to HEAD.
ApplyText ==
    /\ Len(engine_log) < MaxApplies
    /\ LET r == apply_text(wt.file, diff_in, prefer_fallback)
           after == IF r.ok THEN r.text ELSE wt.head
       IN  /\ wt' = [wt EXCEPT !.file = after]
           /\ engine_log' = Append(engine_log,
                                   [ok |-> r.ok, status |-> r.status,
                                    before |-> wt.file, after |-> after])
    /\ UNCHANGED << diff_in, prefer_fallback, git_outcome, strategy_trace,
                    coreVars, webhookVars, pollinateVars, parseVars, kimiVars >>


(***************************************************************************)
(* The model client (kimi_client.py).                                      *)
(***************************************************************************)
\* What one POST can come to: a response with a status code, or an
\* httpx.NetworkError or httpx.TimeoutException.
StatusCodes == {200, 204, 400, 422, 429, 500, 503, 504}

KimiResponses ==
    { [kind |-> "status", code |-> n] : n \in StatusCodes }
      \cup { [kind |-> "network", code |-> 0], [kind |-> "timeout", code |-> 0] }

\* `response.status_code in [429, 503, 504]`
TransientCodes == {429, 503, 504}

\* raise_for_status raises for a 4xx or 5xx response and returns for a 2xx.
RaisesForStatus(code) == code >= 400

\* (2**attempt) * 0.5 seconds, in twentieths of a second
RECURSIVE Pow2(_)
Pow2(n) == IF n = 0 THEN 1 ELSE 2 * Pow2(n - 1)

sleep_time(attempt) == Pow2(attempt) * 10

\* random.uniform(0, 0.1 * sleep_time): its two ends
Jitters(attempt) == {0, Pow2(attempt)}

KimiInit(retries) ==
    /\ kimi_retry_max \in retries
    /\ kimi_attempt = 0
    /\ kimi_state = "running"
    /\ kimi_log = << >>

IdleKimi == KimiInit({0})

\* One iteration of `for attempt in range(self.retry_max)`: the POST, and
\* what the loop body does with its outcome.  `slept` is the delay before
\* the next iteration, `done` what the call comes to in this iteration.
Attempt(resp, jitter) ==
    /\ kimi_state = "running"
    /\ kimi_attempt < kimi_retry_max
    /\ jitter \in Jitters(kimi_attempt)
    /\ LET transient == resp.kind = "status" /\ resp.code \in TransientCodes
           errored == resp.kind # "status"
           last == kimi_attempt >= kimi_retry_max - 1
           slept == IF transient THEN sleep_time(kimi_attempt) + jitter
                    ELSE IF errored /\ ~last THEN sleep_time(kimi_attempt)
                    ELSE 0
           done == IF resp.kind = "status" /\ resp.code = 200 THEN "returned"
                   ELSE IF transient THEN "running"
                   ELSE IF errored THEN (IF last THEN "raised" ELSE "running")
                   ELSE IF RaisesForStatus(resp.code) THEN "raised"
                   ELSE "running"
       IN  /\ (~transient => jitter = 0)
           /\ kimi_log' = Append(kimi_log,
                                 [kind |-> resp.kind, code |-> resp.code,
                                  slept |-> slept])
           /\ kimi_state' = done
           /\ kimi_attempt' = IF done = "running" THEN kimi_attempt + 1
                              ELSE kimi_attempt
    /\ UNCHANGED << kimi_retry_max, coreVars, engineVars, webhookVars,
                    pollinateVars, parseVars >>

\* The loop is over: raise Exception("Max retries (...) exceeded").
Exhausted ==
    /\ kimi_state = "running"
    /\ kimi_attempt >= kimi_retry_max
    /\ kimi_state' = "raised"
    /\ UNCHANGED << kimi_retry_max, kimi_attempt, kimi_log, coreVars,
                    engineVars, webhookVars, pollinateVars, parseVars >>

\* The risk policies a configuration can hold: the default, one that leaves
\* `medium` out of both lists, and one with both lists empty.
DefaultPolicy == [auto_apply |-> {"low", "medium"},
                  require_approval |-> {"high", "critical"}]

Policies ==
    { DefaultPolicy,
      [auto_apply |-> {"low"}, require_approval |-> {"high", "critical"}],
      [auto_apply |-> {}, require_approval |-> {}] }

\* self.agents after _init_agents: one instance for each name of
\* agents.enabled that names an agent class, in that order.
EnabledLists ==
    { AgentsEnabled,
      <<"StyleEnforcer">>,
      <<"StyleEnforcer", "StyleEnforcer">> }

\* control_plane.backoff_base_seconds and backoff_max_seconds: the
\* defaults, a low cap, a cap of zero, a base above the cap, and negative
\* values, which ControlPlaneConfig accepts like every other int.
DefaultBackoff ==
    [backoff_base_seconds |-> BackoffBase, backoff_max_seconds |-> BackoffMax]

BackoffSettings ==
    { DefaultBackoff,
      [backoff_base_seconds |-> 30, backoff_max_seconds |-> 50],
      [backoff_base_seconds |-> 30, backoff_max_seconds |-> 0],
      [backoff_base_seconds |-> 600, backoff_max_seconds |-> 30],
      [backoff_base_seconds |-> -5, backoff_max_seconds |-> -1] }

\* A backoff of two seconds, which the watcher's clock can outlast.
ShortBackoff == [backoff_base_seconds |-> 2, backoff_max_seconds |-> 2]

PolicyInit(policies, enabled, backoffs) ==
    /\ risk_policy \in policies
    /\ agents_enabled \in enabled
    /\ control_plane \in backoffs

\* The default risk policy, agents and backoff settings.
IdlePolicy == PolicyInit({DefaultPolicy}, {AgentsEnabled}, {DefaultBackoff})

\* The components called on their own, untouched.
IdlePure == IdleEngine /\ IdleWebhook /\ IdlePollinate /\ IdleParse /\ IdleKimi

(***************************************************************************)
(* Specifications.                                                         *)
(***************************************************************************)
Answers == {"true", "false", "raise"}

\* The state outside the cycles, untouched.
IdleExt == IdleSupervisor /\ IdleAgents /\ IdlePure /\ IdlePolicy

\* One cycle of one coordinator, in either apply mode, unthrottled.
SpecConfigs == { k \in Configs : k.max_ph = 0 /\ k.kill_switch }

Init == CoordInit(SpecConfigs, InitialTrees, {1}, 1) /\ SandboxInit({DefaultRunner}) /\ IdleExt

Next ==
    \/ \E c \in Cycles : StartCycle(c)
    \/ \E c \in Cycles, ids \in AgentOutputs : GenerateProposals(c, ids)
    \/ \E c \in Cycles : GenerateRaises(c)
    \/ \E c \in Cycles : CrossPollinate(c)
    \/ \E c \in Cycles, statusFails \in BOOLEAN : Gate(c, statusFails)
    \/ \E c \in Cycles, answer \in Answers : Approval(c, answer)
    \/ \E c \in Cycles, fits \in BOOLEAN : Patch(c, fits)
    \/ \E c \in Cycles, ok \in BOOLEAN, commitFails \in BOOLEAN : Verify(c, ok, commitFails)
    \/ \E c \in Cycles : RollbackVerify(c)
    \/ \E c \in Cycles : RollbackCommit(c)
    \/ \E c \in Cycles, createFails \in BOOLEAN : RGate(c, createFails)
    \/ \E c \in Cycles, answer \in Answers, createFails \in BOOLEAN :
          RApproval(c, answer, createFails)
    \/ \E c \in Cycles, k \in 1..MaxProposals, fits \in BOOLEAN : WorkerPatch(c, k, fits)
    \/ \E c \in Cycles, k \in 1..MaxProposals, ok \in BOOLEAN : WorkerVerify(c, k, ok)
    \/ \E c \in Cycles, k \in 1..MaxProposals : WorkerRollback(c, k)
    \/ \E c \in Cycles, k \in 1..MaxProposals,
          outcome \in {"ok", "commit_fails", "raises"} : WorkerDiff(c, k, outcome)
    \/ \E c \in Cycles : Collect(c)

Spec == Init /\ [][Next]_vars

\* Cycles one after the other on one coordinator in direct mode, with the
\* failure-rate kill-switch on or off.
KillConfigs ==
    { k \in Configs : /\ ~k.paused /\ ~k.review /\ k.max_ph = 0
                      /\ ~k.require_clean /\ ~k.commit_on_success
                      /\ k.handler = "AlwaysApprove" }

InitKill == CoordInit(KillConfigs, {CleanTree}, {1}, MaxCycles) /\ SandboxInit({DefaultRunner}) /\ IdleExt

NextUncommitted ==
    \/ \E c \in Cycles : StartCycle(c)
    \/ \E c \in Cycles, ids \in AgentOutputs : GenerateProposals(c, ids)
    \/ \E c \in Cycles : GenerateRaises(c)
    \/ \E c \in Cycles : CrossPollinate(c)
    \/ \E c \in Cycles, statusFails \in BOOLEAN : Gate(c, statusFails)
    \/ \E c \in Cycles, answer \in Answers : Approval(c, answer)
    \/ \E c \in Cycles, fits \in BOOLEAN : Patch(c, fits)
    \/ \E c \in Cycles, ok \in BOOLEAN, commitFails \in BOOLEAN : Verify(c, ok, commitFails)
    \/ \E c \in Cycles : RollbackVerify(c)

SpecKill == InitKill /\ [][NextUncommitted]_vars

NextDirect ==
    \/ \E c \in Cycles : StartCycle(c)
    \/ \E c \in Cycles, ids \in AgentOutputs : GenerateProposals(c, ids)
    \/ \E c \in Cycles : GenerateRaises(c)
    \/ \E c \in Cycles : CrossPollinate(c)
    \/ \E c \in Cycles, statusFails \in BOOLEAN : Gate(c, statusFails)
    \/ \E c \in Cycles, answer \in Answers : Approval(c, answer)
    \/ \E c \in Cycles, fits \in BOOLEAN : Patch(c, fits)
    \/ \E c \in Cycles, ok \in BOOLEAN, commitFails \in BOOLEAN : Verify(c, ok, commitFails)
    \/ \E c \in Cycles : RollbackVerify(c)
    \/ \E c \in Cycles : RollbackCommit(c)

\* The same with max_proposals_per_hour set and the clock running.
ThrottleConfigs ==
    { k \in Configs : /\ ~k.paused /\ ~k.review /\ k.max_ph = MaxPerHour
                      /\ k.kill_switch /\ ~k.require_clean /\ ~k.commit_on_success
                      /\ k.handler = "AlwaysApprove" }

InitThrottle == CoordInit(ThrottleConfigs, {CleanTree}, {1}, MaxCycles) /\ SandboxInit({DefaultRunner}) /\ IdleExt

NextThrottle ==
    \/ NextUncommitted
    \/ Tick

SpecThrottle == InitThrottle /\ [][NextThrottle]_vars

\* Two cycles running concurrently on one coordinator (start() with its
\* event loop and run_once() callers), direct mode.
ConcurrentConfigs ==
    { k \in Configs : /\ ~k.paused /\ ~k.review /\ k.max_ph = 0
                      /\ k.kill_switch /\ ~k.require_clean /\ k.commit_on_success
                      /\ k.handler = "AlwaysApprove" }

InitConcurrent == CoordInit(ConcurrentConfigs, {CleanTree}, Cycles, Cardinality(Cycles)) /\ SandboxInit({DefaultRunner}) /\ IdleExt

NextConcurrent ==
    \/ NextDirect
    \/ \E c \in Cycles : AcquireLock(c)

SpecConcurrent == InitConcurrent /\ [][NextConcurrent]_vars

\* The patch engine on every tree.
InitPatch == CoordInit({CHOOSE k \in SpecConfigs : k.paused}, AllTrees, {}, 0) /\ SandboxInit({DefaultRunner}) /\ IdleExt

NextPatch == \E id \in ProposalIds, fits \in BOOLEAN : ApplyPatchAtomic(id, fits)

SpecPatch == InitPatch /\ [][NextPatch]_vars

\* The sandbox runner under every configuration.
InitSandbox ==
    /\ CoordInit({CHOOSE k \in SpecConfigs : k.paused}, {CleanTree}, {}, 0)
    /\ SandboxInit(Runners)
    /\ IdleExt

NextSandbox ==
    \E argv \in Argvs, docker \in BOOLEAN, proc \in ProcOutcomes :
        SandboxRun(argv, docker, proc)

SpecSandbox == InitSandbox /\ [][NextSandbox]_vars

\* start() with its scan task: events are handled one after the other in
\* direct mode, by a handler that may approve, reject or raise.
SupervisorConfigs ==
    { k \in Configs : /\ ~k.paused /\ ~k.review /\ k.max_ph = 0
                      /\ k.kill_switch /\ ~k.require_clean /\ ~k.commit_on_success
                      /\ k.handler = "Other" }

\* The agents' answers with at most one proposal.
AtMostOne == { s \in AgentOutputs : Len(s) <= 1 }

InitSupervisor ==
    /\ CoordInit(SupervisorConfigs, {CleanTree}, {1}, 0)
    /\ SandboxInit({DefaultRunner})
    /\ IdleSupervisor /\ IdleAgents /\ IdlePure /\ IdlePolicy

NextSupervisor ==
    \/ StartSupervisor
    \/ SignalStop
    \/ LoopTop
    \/ GetTimesOut
    \/ GetEvent
    \/ \E c \in Cycles : HandleReturns(c)
    \/ SupervisorReturns
    \/ ScanWake
    \/ \E c \in Cycles : StartCycle(c)
    \/ \E c \in Cycles, ids \in AtMostOne : GenerateProposals(c, ids)
    \/ \E c \in Cycles : GenerateRaises(c)
    \/ \E c \in Cycles : CrossPollinate(c)
    \/ \E c \in Cycles, statusFails \in BOOLEAN : Gate(c, statusFails)
    \/ \E c \in Cycles, answer \in Answers : Approval(c, answer)
    \/ \E c \in Cycles, fits \in BOOLEAN : Patch(c, fits)
    \/ \E c \in Cycles, ok \in BOOLEAN, commitFails \in BOOLEAN : Verify(c, ok, commitFails)
    \/ \E c \in Cycles : RollbackVerify(c)
    \/ Tick

SpecSupervisor == InitSupervisor /\ [][NextSupervisor]_vars

\* The watcher and the scan task filling the queue of a paused coordinator,
\* which start() empties.
InitQueue ==
    /\ CoordInit({CHOOSE k \in SpecConfigs : k.paused}, {CleanTree}, {1}, 0)
    /\ SandboxInit({DefaultRunner})
    /\ SupervisorInit(MonitoringSettings) /\ IdleAgents /\ IdlePure /\ IdlePolicy

NextQueue ==
    \/ StartSupervisor
    \/ LoopTop
    \/ GetTimesOut
    \/ GetEvent
    \/ \E c \in Cycles : HandleReturns(c)
    \/ ScanWake
    \/ \E p \in Paths : OnAnyEvent(p)
    \/ RunPut
    \/ \E c \in Cycles : StartCycle(c)

SpecQueue == InitQueue /\ [][NextQueue]_vars

\* The watcher's handler with its clock running.
InitWatcher ==
    /\ CoordInit({CHOOSE k \in SpecConfigs : k.paused}, {CleanTree}, {1}, 0)
    /\ SandboxInit({DefaultRunner})
    /\ SupervisorInit(MonitoringSettings) /\ IdleAgents /\ IdlePure /\ IdlePolicy

NextWatcher ==
    \/ StartSupervisor
    \/ \E p \in Paths : OnAnyEvent(p)
    \/ RunPut
    \/ WatchClock

SpecWatcher == InitWatcher /\ [][NextWatcher]_vars

\* One cycle in direct mode whose agents raise or return, each on its own.
AgentsConfigs ==
    { k \in Configs : /\ ~k.paused /\ ~k.review /\ k.max_ph = 0
                      /\ k.kill_switch /\ ~k.require_clean /\ ~k.commit_on_success
                      /\ k.handler = "AlwaysApprove" }

InitAgents ==
    /\ CoordInit(AgentsConfigs, {CleanTree}, {1}, 1)
    /\ SandboxInit({DefaultRunner})
    /\ IdleSupervisor
    /\ AgentsInit(GatherResults)
    /\ IdlePure /\ IdlePolicy

NextAgents ==
    \/ \E c \in Cycles : StartCycle(c)
    \/ \E c \in Cycles : Gather(c)
    \/ \E c \in Cycles : CrossPollinate(c)
    \/ \E c \in Cycles, statusFails \in BOOLEAN : Gate(c, statusFails)
    \/ \E c \in Cycles, answer \in Answers : Approval(c, answer)
    \/ \E c \in Cycles, fits \in BOOLEAN : Patch(c, fits)
    \/ \E c \in Cycles, ok \in BOOLEAN, commitFails \in BOOLEAN : Verify(c, ok, commitFails)
    \/ \E c \in Cycles : RollbackVerify(c)

SpecAgents == InitAgents /\ [][NextAgents]_vars


\* The coordinator and its supervisor as constructed, doing nothing.
IdleCore ==
    /\ CoordInit({CHOOSE k \in SpecConfigs : k.paused}, {CleanTree}, {}, 0)
    /\ SandboxInit({DefaultRunner})
    /\ IdleSupervisor /\ IdleAgents /\ IdlePolicy

\* The patch engine called again and again with one diff on one file.
InitEngine ==
    /\ IdleCore
    /\ EngineInit(TextTrees, Diffs, BOOLEAN)
    /\ IdleWebhook /\ IdlePollinate /\ IdleParse /\ IdleKimi

NextEngine == ApplyText

SpecEngine == InitEngine /\ [][NextEngine]_vars

\* The webhook handler on every response.
InitWebhook ==
    /\ IdleCore
    /\ WebhookInit(WebhookResponses)
    /\ IdleEngine /\ IdlePollinate /\ IdleParse /\ IdleKimi

NextWebhook == RequestApproval

SpecWebhook == InitWebhook /\ [][NextWebhook]_vars

\* Cross-pollination on every input.
InitPollinate ==
    /\ IdleCore
    /\ PollinateInit(PollinationInputs)
    /\ IdleEngine /\ IdleWebhook /\ IdleParse /\ IdleKimi

NextPollinate == Pollinate

SpecPollinate == InitPollinate /\ [][NextPollinate]_vars

\* propose of every enabled agent on every reply.
InitPropose ==
    /\ IdleCore
    /\ ParseInit({AgentsEnabled[i] : i \in 1..Len(AgentsEnabled)}, Contents)
    /\ IdleEngine /\ IdleWebhook /\ IdlePollinate /\ IdleKimi

NextPropose == Propose

SpecPropose == InitPropose /\ [][NextPropose]_vars

\* chat_completion on every sequence of responses, for every retry_max.
InitKimi ==
    /\ IdleCore
    /\ KimiInit(0..MaxRetry)
    /\ IdleEngine /\ IdleWebhook /\ IdlePollinate /\ IdleParse

NextKimi ==
    \/ \E resp \in KimiResponses, jitter \in 0..Pow2(MaxRetry) : Attempt(resp, jitter)
    \/ Exhausted

SpecKimi == InitKimi /\ [][NextKimi]_vars

\* One cycle in either apply mode under every risk policy.
PolicyConfigs ==
    { k \in Configs : /\ ~k.paused /\ k.max_ph = 0 /\ k.kill_switch
                      /\ k.keep_worktrees /\ k.require_clean
                      /\ k.handler = "AlwaysApprove" }

InitPolicy ==
    /\ CoordInit(PolicyConfigs, {CleanTree}, {1}, 1)
    /\ SandboxInit({DefaultRunner})
    /\ IdleSupervisor /\ IdleAgents /\ IdlePure
    /\ PolicyInit(Policies, {AgentsEnabled}, {DefaultBackoff})

SpecPolicy == InitPolicy /\ [][Next]_vars

\* Two cycles running concurrently on one coordinator in direct mode, with
\* the clean-worktree gate on and no commit, one proposal a cycle at most.
GateConfigs ==
    { k \in Configs : /\ ~k.paused /\ ~k.review /\ k.max_ph = 0
                      /\ k.kill_switch /\ k.require_clean
                      /\ ~k.commit_on_success
                      /\ k.handler = "AlwaysApprove" }

InitGate ==
    /\ CoordInit(GateConfigs, {CleanTree}, Cycles, Cardinality(Cycles))
    /\ SandboxInit({DefaultRunner})
    /\ IdleExt

NextGate ==
    \/ \E c \in Cycles : StartCycle(c)
    \/ \E c \in Cycles, ids \in AtMostOne : GenerateProposals(c, ids)
    \/ \E c \in Cycles : GenerateRaises(c)
    \/ \E c \in Cycles : CrossPollinate(c)
    \/ \E c \in Cycles, statusFails \in BOOLEAN : Gate(c, statusFails)
    \/ \E c \in Cycles, answer \in Answers : Approval(c, answer)
    \/ \E c \in Cycles : AcquireLock(c)
    \/ \E c \in Cycles, fits \in BOOLEAN : Patch(c, fits)
    \/ \E c \in Cycles, ok \in BOOLEAN, commitFails \in BOOLEAN : Verify(c, ok, commitFails)
    \/ \E c \in Cycles : RollbackVerify(c)

SpecGate == InitGate /\ [][NextGate]_vars

\* What _generate_proposals can return when the agent field of a proposal
\* is what the model's reply says: the proposals of the pool in any order.
AnyOutputs ==
    { s \in IdSeqs : \A i, j \in 1..Len(s) : i # j => s[i] # s[j] }

\* One cycle in direct mode for every list of enabled agents.
RefineConfigs ==
    { k \in Configs : /\ ~k.paused /\ ~k.review /\ k.max_ph = 0
                      /\ k.kill_switch /\ ~k.require_clean
                      /\ ~k.commit_on_success /\ k.handler = "AlwaysApprove" }

InitRefine ==
    /\ CoordInit(RefineConfigs, {CleanTree}, {1}, 1)
    /\ SandboxInit({DefaultRunner})
    /\ IdleSupervisor /\ IdleAgents /\ IdlePure
    /\ PolicyInit({DefaultPolicy}, EnabledLists, {DefaultBackoff})

NextRefine ==
    \/ \E c \in Cycles : StartCycle(c)
    \/ \E c \in Cycles, ids \in AnyOutputs : GenerateProposals(c, ids)
    \/ \E c \in Cycles : GenerateRaises(c)
    \/ \E c \in Cycles : CrossPollinate(c)
    \/ \E c \in Cycles, statusFails \in BOOLEAN : Gate(c, statusFails)
    \/ \E c \in Cycles, answer \in Answers : Approval(c, answer)
    \/ \E c \in Cycles, fits \in BOOLEAN : Patch(c, fits)
    \/ \E c \in Cycles, ok \in BOOLEAN, commitFails \in BOOLEAN : Verify(c, ok, commitFails)
    \/ \E c \in Cycles : RollbackVerify(c)

SpecRefine == InitRefine /\ [][NextRefine]_vars

\* Cycles one after the other in direct mode under every backoff setting,
\* one proposal a cycle at most, with the clock running.
BackoffConfigs ==
    { k \in Configs : /\ ~k.paused /\ ~k.review /\ k.max_ph = 0
                      /\ ~k.kill_switch /\ ~k.require_clean
                      /\ k.handler = "AlwaysApprove" }

InitBackoff ==
    /\ CoordInit(BackoffConfigs, {CleanTree}, {1}, MaxCycles)
    /\ SandboxInit({DefaultRunner})
    /\ IdleSupervisor /\ IdleAgents /\ IdlePure
    /\ PolicyInit({DefaultPolicy}, {AgentsEnabled}, BackoffSettings)

NextBackoffSpec ==
    \/ \E c \in Cycles : StartCycle(c)
    \/ \E c \in Cycles, ids \in AtMostOne : GenerateProposals(c, ids)
    \/ \E c \in Cycles : GenerateRaises(c)
    \/ \E c \in Cycles : CrossPollinate(c)
    \/ \E c \in Cycles, statusFails \in BOOLEAN : Gate(c, statusFails)
    \/ \E c \in Cycles, answer \in Answers : Approval(c, answer)
    \/ \E c \in Cycles, fits \in BOOLEAN : Patch(c, fits)
    \/ \E c \in Cycles, ok \in BOOLEAN, commitFails \in BOOLEAN : Verify(c, ok, commitFails)
    \/ \E c \in Cycles : RollbackVerify(c)
    \/ \E c \in Cycles : RollbackCommit(c)
    \/ Tick

SpecBackoff == InitBackoff /\ [][NextBackoffSpec]_vars

\* start() with the watcher, the scan task and the clock: events arrive
\* while the loop backs off after a cycle whose agents found nothing or
\* whose proposal generation raised.
LoopConfigs ==
    { k \in Configs : /\ ~k.paused /\ ~k.review /\ k.max_ph = 0
                      /\ k.kill_switch /\ ~k.require_clean /\ ~k.commit_on_success
                      /\ k.handler = "AlwaysApprove" }

InitLoop ==
    /\ CoordInit(LoopConfigs, {CleanTree}, {1}, 0)
    /\ SandboxInit({DefaultRunner})
    /\ IdleSupervisor /\ IdleAgents /\ IdlePure
    /\ PolicyInit({DefaultPolicy}, {AgentsEnabled}, {ShortBackoff})

NextLoop ==
    \/ StartSupervisor
    \/ LoopTop
    \/ GetTimesOut
    \/ GetEvent
    \/ \E c \in Cycles : HandleReturns(c)
    \/ ScanWake
    \/ OnAnyEvent(PathA)
    \/ RunPut
    \/ WatchClock
    \/ \E c \in Cycles : StartCycle(c)
    \/ \E c \in Cycles : GenerateProposals(c, << >>)
    \/ \E c \in Cycles : GenerateRaises(c)

SpecLoop == InitLoop /\ [][NextLoop]_vars

\* run_once called again and again, each call after the one before it has
\* returned, in direct mode with the kill-switch on.  The results of the
\* calls are kept in turn in the two slots.
TripCycles == MaxCycles + 1

TripConfigs == { k \in KillConfigs : k.kill_switch }

\* The agents propose style fixes only.
TripOutputs ==
    { s \in AgentOutputs :
        \A i \in 1..Len(s) : ProposalById(s[i]).agent = "StyleEnforcer" }

InitTrip ==
    /\ CoordInit(TripConfigs, {CleanTree}, Cycles, TripCycles)
    /\ SandboxInit({DefaultRunner})
    /\ IdleExt

\* The next call: no other cycle is running.
StartNext(c) ==
    /\ \A d \in Cycles : pc[d] \in {"idle", "done"}
    /\ StartCycle(c)

NextTrip ==
    \/ \E c \in Cycles : StartNext(c)
    \/ \E c \in Cycles, ids \in TripOutputs : GenerateProposals(c, ids)
    \/ \E c \in Cycles : GenerateRaises(c)
    \/ \E c \in Cycles : CrossPollinate(c)
    \/ \E c \in Cycles, statusFails \in BOOLEAN : Gate(c, statusFails)
    \/ \E c \in Cycles, answer \in Answers : Approval(c, answer)
    \/ \E c \in Cycles, fits \in BOOLEAN : Patch(c, fits)
    \/ \E c \in Cycles, ok \in BOOLEAN, commitFails \in BOOLEAN : Verify(c, ok, commitFails)
    \/ \E c \in Cycles : RollbackVerify(c)

SpecTrip == InitTrip /\ [][NextTrip]_vars

\* The caller of run_once goes on calling it.
CallAgain ==
    /\ cyclesLeft = 0
    /\ \A c \in Cycles : pc[c] \in {"idle", "done"}
    /\ cyclesLeft' = TripCycles
    /\ UNCHANGED << coordVars, now, supVars >>

\* The calls of SpecTrip, without end, in a run where every patch applies
\* and every verification fails; a call that can take a step takes one.
NextAllFail ==
    \/ CallAgain
    \/ \E c \in Cycles : StartNext(c)
    \/ \E c \in Cycles, ids \in TripOutputs \ {<< >>} : GenerateProposals(c, ids)
    \/ \E c \in Cycles : CrossPollinate(c)
    \/ \E c \in Cycles : Gate(c, FALSE)
    \/ \E c \in Cycles : Approval(c, "true")
    \/ \E c \in Cycles : Patch(c, TRUE)
    \/ \E c \in Cycles : Verify(c, FALSE, FALSE)
    \/ \E c \in Cycles : RollbackVerify(c)

SpecAllFail == InitTrip /\ [][NextAllFail]_vars /\ WF_vars(NextAllFail)

\* Calls one after the other in direct mode with require_clean_before_apply
\* on and commit_on_success off, in a repository whose HEAD may already
\* contain the change of the first proposal.
StagedTrees == { [CleanTree EXCEPT !.committed = s] : s \in SUBSET {1} }

InitStaged ==
    /\ CoordInit(GateConfigs, StagedTrees, Cycles, Cardinality(Cycles))
    /\ SandboxInit({DefaultRunner})
    /\ IdleExt

NextStaged ==
    \/ \E c \in Cycles : StartNext(c)
    \/ \E c \in Cycles, ids \in TripOutputs : GenerateProposals(c, ids)
    \/ \E c \in Cycles : CrossPollinate(c)
    \/ \E c \in Cycles, statusFails \in BOOLEAN : Gate(c, statusFails)
    \/ \E c \in Cycles, answer \in Answers : Approval(c, answer)
    \/ \E c \in Cycles, fits \in BOOLEAN : Patch(c, fits)
    \/ \E c \in Cycles, ok \in BOOLEAN : Verify(c, ok, FALSE)
    \/ \E c \in Cycles : RollbackVerify(c)

SpecStaged == InitStaged /\ [][NextStaged]_vars

\* The patch engine on every outcome of its steps.
InitStrategy ==
    /\ IdleCore
    /\ StrategyInit(GitOutcomes, BOOLEAN)
    /\ IdleWebhook /\ IdlePollinate /\ IdleParse /\ IdleKimi

NextStrategy == RunStrategies

SpecStrategy == InitStrategy /\ [][NextStrategy]_vars

\* start() of a paused coordinator with monitoring.enabled on or off, until
\* it is stopped.
InitScan ==
    /\ CoordInit({CHOOSE k \in SpecConfigs : k.paused}, {CleanTree}, {1}, 0)
    /\ SandboxInit({DefaultRunner})
    /\ SupervisorInit(ScanSettings) /\ IdleAgents /\ IdlePure /\ IdlePolicy

NextScan ==
    \/ NextQueue
    \/ SignalStop
    \/ SupervisorReturns

SpecScan == InitScan /\ [][NextScan]_vars

(***************************************************************************)
(* Properties.                                                             *)
(***************************************************************************)
Steps == {"patch", "verify", "rollback", "commit"}

InFailed(c, id, reason) ==
    \E i \in 1..Len(failed[c]) : failed[c][i] = <<id, reason>>

\* The cycle's step at pc value `at` is taken.
Leaves(c, at) == pc[c] = at /\ (pc'[c] # at \/ queue'[c] # queue[c])

\* C1: in both apply modes a proposal that requires approval is patched only
\* after the handler returned true for it in the same cycle; when the
\* handler returns false the proposal is failed as approval_rejected and is
\* never patched, verified, rolled back or committed.
C1_ApprovalBeforePatch ==
    \A c \in Cycles, id \in ProposalIds :
        /\ ("patch" \in acts[c][id] /\ requires_approval(ProposalById(id)))
              => "handler_true" \in acts[c][id]
        /\ "handler_false" \in acts[c][id] =>
              /\ InFailed(c, id, "approval_rejected")
              /\ acts[c][id] \cap Steps = {}
              /\ "handler_true" \notin acts[c][id]
              /\ \A i \in 1..Len(applied[c]) : applied[c][i] # id
              /\ \A k \in 1..Len(rcands[c]) : rcands[c][k].id # id

\* One cycle in review mode patched an approved proposal and failed a
\* rejected one.
C1_Witness ==
    \E c \in Cycles, id, other \in ProposalIds :
        /\ cfg.review
        /\ requires_approval(ProposalById(id))
        /\ {"handler_true", "patch"} \subseteq acts[c][id]
        /\ "handler_false" \in acts[c][other]
        /\ InFailed(c, other, "approval_rejected")

\* The same in direct mode.
C1_WitnessDirect ==
    \E c \in Cycles, id, other \in ProposalIds :
        /\ ~cfg.review
        /\ requires_approval(ProposalById(id))
        /\ {"handler_true", "patch"} \subseteq acts[c][id]
        /\ "handler_false" \in acts[c][other]

\* C2: after every failed git_apply_patch_atomic call the working tree is
\* what it was immediately before the call, whatever that was.
C2_FailedApplyRestoresTree ==
    apply_result.status = "failed" => repo = pre_patch

\* The engine failed on a clean tree, where the tree is restored.
C2_CleanCase ==
    /\ apply_result.status = "failed"
    /\ git_is_clean(pre_patch) /\ ~pre_patch.ignoredUntracked
    /\ repo = pre_patch

InSequence(c) == pc[c] \in {"patch", "verify", "rollback_verify", "rollback_commit"}

LevelRank(level) ==
    CASE level = "critical" -> 0 [] level = "high" -> 1
      [] level = "medium" -> 2 [] level = "low" -> 3

PosIn(s, id) == CHOOSE i \in 1..Len(s) : s[i] = id

\* x is processed before y: a more urgent level, or the same level and
\* earlier in the cycle's proposals
Before(c, x, y) ==
    LET rx == LevelRank(ProposalById(x).risk_level)
        ry == LevelRank(ProposalById(y).risk_level)
    IN  rx < ry \/ (rx = ry /\ PosIn(proposals[c], x) < PosIn(proposals[c], y))

Processed(c) ==
    {applied[c][i] : i \in 1..Len(applied[c])}
        \cup {failed[c][i][1] : i \in 1..Len(failed[c])}

\* C3: in direct mode a cycle processes its proposals one at a time in the
\* order critical, high, medium, low (equal levels in input order); the
\* patch, verify and rollback-or-commit steps of a proposal run with
\* write_lock held, so the patch-to-commit sequences of two cycles never
\* overlap, and the main worktree changes only inside such a sequence.
C3_SerialRiskOrder ==
    /\ [](\A c \in Cycles :
            /\ InSequence(c) => write_lock = c
            /\ \A d \in Cycles : (c # d /\ InSequence(c)) => ~InSequence(d)
            /\ \A k \in 2..Len(queue[c]) : acts[c][queue[c][k]] = {}
            /\ \A k \in 1..Len(queue[c]) :
                 /\ \A x \in Processed(c) : Before(c, x, queue[c][k])
                 /\ \A j \in 1..(k - 1) : Before(c, queue[c][j], queue[c][k]))
    /\ [][repo' # repo => \E c \in Cycles : InSequence(c) /\ write_lock = c]_vars

\* One cycle is between patch and commit with the lock while the other
\* waits for the lock.
C3_Witness ==
    \E c, d \in Cycles :
        /\ pc[c] = "verify" /\ write_lock = c
        /\ pc[d] = "lock"
        /\ Len(queue[c]) = 2 /\ applied[c] = << >> /\ failed[c] = << >>

AnyControlChar(argv) ==
    \E i \in 1..Len(argv) : \E j \in 1..Len(argv[i]) : argv[i][j] \in {LF, CR, NUL}

Ran == sandbox_result.kind # "none"

Rejected126 ==
    /\ sandbox_result.kind = "returned"
    /\ sandbox_result.rejected
    /\ sandbox_result.exit_code = 126

\* C4 (as amended): for every argv with a newline, carriage return or NUL
\* in some element, run starts no process under any configuration, and
\* returns rejected with exit code 126 unless the forced-failure switch is
\* set, in which case it returns exit code 1 without the rejected mark.
C4_ControlCharsNeverRun ==
    (Ran /\ AnyControlChar(sandbox_argv)) =>
        /\ ~sandbox_result.spawned
        /\ IF sandbox_runner.fail_run
           THEN /\ sandbox_result.kind = "returned"
                /\ sandbox_result.exit_code = 1
                /\ ~sandbox_result.rejected
           ELSE Rejected126

\* C4 as stated: rejected with 126 under every configuration.
C4_Original ==
    (Ran /\ AnyControlChar(sandbox_argv)) =>
        (Rejected126 /\ ~sandbox_result.spawned)

\* An argv with a NUL in it, which an allowlist regex admits, is rejected.
C4_Witness ==
    /\ Ran /\ Rejected126
    /\ \E i \in 1..Len(sandbox_argv) : NUL \in {sandbox_argv[i][j] : j \in 1..Len(sandbox_argv[i])}
    /\ sandbox_runner.enforce_allowlist
    /\ \E i \in 1..Len(sandbox_runner.allowed_commands) :
          fullmatch(sandbox_runner.allowed_commands[i], shlex_join(sandbox_argv))

LeadingElementsEqual(argv, entry) ==
    /\ Len(entry) <= Len(argv)
    /\ \A i \in 1..Len(entry) : argv[i] = entry[i]

RegexAdmits(runner, argv) ==
    \E i \in 1..Len(runner.allowed_commands) :
        fullmatch(runner.allowed_commands[i], shlex_join(argv))

\* C5 (as amended): with enforcement on and the forced-failure switch off,
\* run admits an argv exactly when it is not empty, no element holds a
\* newline, carriage return or NUL, and either a non-empty allowlist entry
\* equals its leading elements or the shell-joined argv fully matches a
\* configured regex; every other argv is rejected with 126 and no process.
C5_AllowlistAdmission ==
    (Ran /\ sandbox_runner.enforce_allowlist /\ ~sandbox_runner.fail_run) =>
        LET admitted == ~(sandbox_result.kind = "returned" /\ sandbox_result.rejected)
            listed == \E i \in 1..Len(sandbox_runner.allowed_argv) :
                         /\ sandbox_runner.allowed_argv[i] # << >>
                         /\ LeadingElementsEqual(sandbox_argv, sandbox_runner.allowed_argv[i])
        IN  /\ admitted <=>
                 /\ sandbox_argv # << >>
                 /\ ~AnyControlChar(sandbox_argv)
                 /\ listed \/ RegexAdmits(sandbox_runner, sandbox_argv)
            /\ ~admitted => (Rejected126 /\ ~sandbox_result.spawned)

\* C5 as stated: with enforcement on, admitted exactly when an entry equals
\* the leading elements or a regex fully matches; otherwise 126.
C5_Original ==
    (Ran /\ sandbox_runner.enforce_allowlist) =>
        LET admitted == ~(sandbox_result.kind = "returned" /\ sandbox_result.rejected)
            listed == \E i \in 1..Len(sandbox_runner.allowed_argv) :
                         LeadingElementsEqual(sandbox_argv, sandbox_runner.allowed_argv[i])
        IN  /\ admitted <=> (listed \/ RegexAdmits(sandbox_runner, sandbox_argv))
            /\ ~admitted => (Rejected126 /\ ~sandbox_result.spawned)

\* An argv that holds an allowlist entry, but not in front, is rejected.
C5_Witness ==
    /\ Ran /\ Rejected126
    /\ sandbox_runner.enforce_allowlist /\ ~sandbox_runner.fail_run
    /\ sandbox_runner.allowed_argv = << <<ArgEcho>> >>
    /\ sandbox_runner.allowed_commands = << >>
    /\ sandbox_argv = <<ArgHi, ArgEcho>>

\* A listed argv is admitted and its process started.
C5_WitnessAdmitted ==
    /\ Ran /\ sandbox_result.spawned
    /\ sandbox_runner.enforce_allowlist
    /\ sandbox_runner.allowed_argv = << <<ArgEcho>> >>
    /\ sandbox_runner.allowed_commands = << >>
    /\ sandbox_argv = <<ArgEcho, ArgSpace>>

\* C6: in direct mode, when the patch applied and verification failed, the
\* rollback leaves the main worktree as it was before that proposal's patch,
\* the proposal is failed as verification_failed and not applied, and one
\* false is appended to verify_outcomes.
C6_RollbackRestoresPrePatch ==
    [][\A c \in Cycles : Leaves(c, "rollback_verify") =>
          /\ repo' = pre_patch
          /\ failed'[c] = Append(failed[c], <<Cur(c), "verification_failed">>)
          /\ applied'[c] = applied[c]
          /\ verify_outcomes' = DequeAppend(verify_outcomes, FALSE, OutcomeMaxLen)
      ]_vars

Dirty(tree) == tree.staged # {} \/ tree.userMod \/ tree.userUntracked

\* The clean-worktree gate meets a dirty main worktree.
DirtyGateStep(c) ==
    /\ Leaves(c, "gate")
    /\ queue[c] # << >>
    /\ ~cfg.review /\ cfg.require_clean
    /\ Dirty(repo)

NothingDoneFor(c) ==
    /\ acts'[c] = acts[c]
    /\ acts[c][Cur(c)] = {}
    /\ applied'[c] = applied[c]
    /\ repo' = repo
    /\ write_lock' = write_lock

\* C7 (as amended): in direct mode with require_clean_before_apply, a
\* proposal whose turn comes while the main worktree has uncommitted
\* changes (untracked paths under the ignored prefixes aside) is failed as
\* dirty_worktree, or as git_status_failed when git status itself fails,
\* and nothing is requested, patched, verified or committed for it.
C7_DirtyWorktreeFails ==
    [][\A c \in Cycles : DirtyGateStep(c) =>
          /\ \E r \in {"dirty_worktree", "git_status_failed"} :
                failed'[c] = Append(failed[c], <<Cur(c), r>>)
          /\ NothingDoneFor(c)
      ]_vars

\* C7 as stated: the reason is always dirty_worktree.
C7_Original ==
    [][\A c \in Cycles : DirtyGateStep(c) =>
          /\ failed'[c] = Append(failed[c], <<Cur(c), "dirty_worktree">>)
          /\ NothingDoneFor(c)
      ]_vars

\* A proposal that would have needed approval was failed at the gate of a
\* worktree with an uncommitted edit.
C7_Witness ==
    \E c \in Cycles, id \in ProposalIds :
        /\ ~cfg.review /\ cfg.require_clean
        /\ repo.userMod
        /\ requires_approval(ProposalById(id))
        /\ InFailed(c, id, "dirty_worktree")
        /\ acts[c][id] = {}

\* C8: when, at the start of the apply stage, the kill-switch is enabled
\* and the verify and apply outcomes together hold at least
\* min_failures_before_disable failures at a rate strictly above the
\* threshold, every proposal of the cycle is failed as auto_apply_disabled
\* and nothing else happens; at a rate equal to the threshold, or with
\* fewer failures, no proposal is failed as auto_apply_disabled.
C8_KillSwitch ==
    [][\A c \in Cycles : Leaves(c, "refine") =>
          LET recent == verify_outcomes \o apply_outcomes
              f == Cardinality({i \in 1..Len(recent) : ~recent[i]})
              trips == /\ cfg.kill_switch
                       /\ f >= MinFailures
                       /\ f * ThresholdDen > ThresholdNum * Len(recent)
          IN  IF trips
              THEN /\ pc'[c] = "done"
                   /\ Len(failed'[c]) = Len(proposals[c])
                   /\ \A i \in 1..Len(proposals[c]) :
                         InFailed(c, proposals[c][i], "auto_apply_disabled")'
                   /\ acts'[c] = NoActs
                   /\ applied'[c] = << >>
                   /\ rcands'[c] = << >>
                   /\ repo' = repo
              ELSE \A i \in 1..Len(failed'[c]) :
                      failed'[c][i][2] # "auto_apply_disabled"
      ]_vars

\* A cycle ended with its proposals failed as auto_apply_disabled.
C8_Witness ==
    \E c \in Cycles :
        /\ pc[c] = "done"
        /\ Len(failed[c]) = MaxProposals
        /\ \A i \in 1..Len(failed[c]) : failed[c][i][2] = "auto_apply_disabled"

\* A cycle reached its loop with as many failures as the minimum asks for
\* at a rate equal to the threshold.
C8_WitnessBoundary ==
    \E c \in Cycles :
        LET recent == verify_outcomes \o apply_outcomes
            f == Cardinality({i \in 1..Len(recent) : ~recent[i]})
        IN  /\ cfg.kill_switch
            /\ pc[c] = "gate" /\ queue[c] # << >> /\ applied[c] = << >> /\ failed[c] = << >>
            /\ f >= MinFailures
            /\ f * ThresholdDen = ThresholdNum * Len(recent)

\* C9: with max_proposals_per_hour > 0, when the timestamps of the last
\* 3600 seconds together with one per generated proposal are more than
\* max_proposals_per_hour, the cycle returns throttled with every proposal
\* failed as throttled, and nothing is refined, approved, patched, verified
\* or committed in it.
C9_Throttle ==
    /\ [][\A c \in Cycles :
            (Leaves(c, "propose") /\ cfg.max_ph > 0 /\ proposals'[c] # << >>) =>
               LET kept == Cardinality({i \in 1..Len(proposal_timestamps) :
                              proposal_timestamps[i] >= now - WindowSeconds})
                   window == kept + Len(proposals'[c])
               IN  window > cfg.max_ph =>
                     /\ status'[c] = "throttled"
                     /\ pc'[c] = "done"
                     /\ failed'[c] = [i \in 1..Len(proposals'[c]) |->
                                        <<proposals'[c][i], "throttled">>]
                     /\ repo' = repo
        ]_vars
    /\ [](\A c \in Cycles : status[c] = "throttled" =>
            /\ pc[c] = "done"
            /\ applied[c] = << >>
            /\ queue[c] = << >>
            /\ acts[c] = NoActs
            /\ rcands[c] = << >>)

\* A cycle was throttled by the timestamps of the cycle before it.
C9_Witness ==
    \E c \in Cycles :
        /\ status[c] = "throttled"
        /\ Len(proposals[c]) <= cfg.max_ph
        /\ Len(failed[c]) = Len(proposals[c])

\* C10: with the always-reject handler a cycle never touches the
\* repository: no approval request, patch, verify, rollback, commit or
\* review worktree; every proposal that reaches the apply stage is failed
\* as dry_run, or as auto_apply_disabled when the kill-switch has tripped.
C10_DryRun ==
    [][cfg.handler = "AlwaysReject" =>
          /\ repo' = repo
          /\ \A c \in Cycles :
                /\ acts'[c] = NoActs
                /\ applied'[c] = << >>
                /\ rcands'[c] = << >>
                /\ Leaves(c, "refine") =>
                     LET reason == IF KillSwitchTripped(cfg.kill_switch,
                                          verify_outcomes, apply_outcomes)
                                   THEN "auto_apply_disabled" ELSE "dry_run"
                     IN  /\ pc'[c] = "done"
                         /\ Len(failed'[c]) = Len(proposals[c])
                         /\ \A i \in 1..Len(proposals[c]) :
                               InFailed(c, proposals[c][i], reason)'
      ]_vars

\* A dry-run cycle of a coordinator set up for review worktrees ended with
\* a proposal that would have needed no approval failed as dry_run.
C10_Witness ==
    \E c \in Cycles, id \in ProposalIds :
        /\ cfg.handler = "AlwaysReject" /\ cfg.review
        /\ pc[c] = "done" /\ status[c] = "success"
        /\ ~requires_approval(ProposalById(id))
        /\ InFailed(c, id, "dry_run")

\* C11: an exception raised inside a cycle ends the cycle with status error
\* and a backoff counted from that moment; it neither stops the supervisor
\* nor touches running, the loop takes the result and goes on to handle later
\* events, and start() returns only once running is false.
C11_CycleErrorContained ==
    /\ [](sup = "returned" => ~running)
    /\ [][\A c \in Cycles :
            (status'[c] = "error" /\ status[c] # "error") =>
                /\ pc'[c] = "done"
                /\ backoff_seconds' >= BackoffBase
                /\ backoff_seconds' >= backoff_seconds
                /\ backoff_until' = now + backoff_seconds'
                /\ running' = running /\ sup' = sup]_vars
    /\ [][(sup = "handling" /\ sup' # "handling") =>
            /\ sup' = "top"
            /\ history' = Append(history, status[1])]_vars

\* A cycle ended in error, the loop waited out the backoff and handled the
\* next event.
C11_Witness ==
    /\ Len(history) = 2
    /\ history[1] = "error"
    /\ history[2] = "success"
    /\ sup = "top" /\ running

\* The supervisor's events so far were accepted or dropped by the handler.
Accepted(p) ==
    Cardinality({i \in 1..Len(pending_puts) : pending_puts[i] = p})
      + Cardinality({i \in 1..Len(monitor_log) :
                        /\ monitor_log[i].path = p
                        /\ monitor_log[i].type = "event_enqueued"
                           \/ monitor_log[i].reason = "queue_full"})

\* C13: the event queue never holds more than monitoring.max_queue_size
\* events; on a full queue a watcher event is dropped and logged as
\* event_dropped / queue_full, a periodic_scan event is dropped without a
\* log entry, and the queued events stay as they are.
C13_QueueBounded ==
    /\ [](Len(event_queue) <= mon.max_queue_size)
    /\ [][Len(event_queue) >= mon.max_queue_size =>
            /\ \/ event_queue' = event_queue
               \/ event_queue # << >> /\ event_queue' = Tail(event_queue)
            /\ IF pending_puts' # pending_puts /\ fs_events' = fs_events
               THEN monitor_log' =
                      Append(monitor_log,
                             MonitorEntry("event_dropped", "queue_full", Head(pending_puts)))
               ELSE monitor_log' = monitor_log \/ fs_events' # fs_events]_vars

\* With a positive max_queue_size the bound holds.
C13_BoundedWhenPositive ==
    mon.max_queue_size > 0 => Len(event_queue) <= mon.max_queue_size

\* A full queue of positive size dropped a watcher event and logged it.
C13_DroppedWhenFull ==
    /\ mon.max_queue_size > 0
    /\ Len(event_queue) = mon.max_queue_size
    /\ monitor_log # << >>
    /\ monitor_log[Len(monitor_log)].reason = "queue_full"

\* C14: a notification for a path that arrives less than debounce_seconds
\* after the last accepted one for the same path is not accepted, so nothing
\* is enqueued for it; a notification for a watched path outside that
\* interval is accepted whatever happened to the other paths.
C14_Debounce ==
    [][fs_events' # fs_events =>
         LET p == fs_last' IN
         p \in WatchedPaths =>
            IF now - last_event_by_path[p] < mon.debounce_seconds
            THEN /\ pending_puts' = pending_puts
                 /\ last_event_by_path' = last_event_by_path
                 /\ event_queue' = event_queue
            ELSE /\ pending_puts' = Append(pending_puts, p)
                 /\ last_event_by_path' = [last_event_by_path EXCEPT ![p] = now]]_vars

\* Of three notifications one was dropped inside PathA's interval while
\* PathB's was accepted a second after PathA's.
C14_Witness ==
    /\ fs_events = 3
    /\ Accepted(PathA) = 1 /\ Accepted(PathB) = 1
    /\ last_event_by_path[PathB] = last_event_by_path[PathA] + 1
    /\ now = last_event_by_path[PathB]
    /\ \A i \in 1..Len(monitor_log) : monitor_log[i].reason # "always_ignore"

\* A second notification for PathA exactly debounce_seconds after the first
\* was accepted.
C14_WitnessBoundary ==
    /\ fs_events = 2
    /\ Accepted(PathA) = 2
    /\ now = mon.debounce_seconds

\* Where the list of agent i starts in the concatenation.
RECURSIVE Offset(_, _)
Offset(results, i) ==
    IF i = 1 THEN 0
    ELSE Offset(results, i - 1)
           + (IF results[i - 1].raised THEN 0 ELSE Len(results[i - 1].list))

RaisedAgents(results) == {i \in 1..Len(results) : results[i].raised}

\* C12: whichever agents raise, the cycle does not end in status error; one
\* agent_error entry is logged for each of them, in agent order, and the
\* cycle's proposals are the lists of the other agents, one after the other
\* in the order of the configured agents.
C12_AgentErrorsContained ==
    \A c \in slots :
        /\ status[c] # "error"
        /\ pc[c] \notin {"idle", "propose"} =>
             LET n == Len(agent_results) IN
             /\ Len(proposals[c]) = Offset(agent_results, n + 1)
             /\ \A i \in 1..n :
                  ~agent_results[i].raised =>
                     \A k \in 1..Len(agent_results[i].list) :
                        proposals[c][Offset(agent_results, i) + k]
                           = agent_results[i].list[k]
             /\ Len(agent_log) = Cardinality(RaisedAgents(agent_results))
             /\ \A i \in RaisedAgents(agent_results) :
                  \E k \in 1..Len(agent_log) :
                     /\ agent_log[k] = [type |-> "agent_error", agent |-> AgentsEnabled[i]]
                     /\ k = Cardinality({j \in RaisedAgents(agent_results) : j <= i})

\* The first agent raised, the other two returned proposals and the cycle
\* applied one of them.
C12_Witness ==
    \E c \in slots :
        /\ agent_results[1].raised
        /\ agent_results[2].list # << >> /\ agent_results[3].list # << >>
        /\ status[c] = "success"
        /\ applied[c] # << >>

\* `part` occurs in `text`
Occurs(text, part) == \E at \in 1..(Len(text) + 1) : MatchesAt(text, part, at)

\* C15: when a diff is applied twice in succession and the first call
\* succeeds, the second call succeeds too and leaves the file as the first
\* call left it.
C15_ApplyTwice ==
    (Len(engine_log) >= 2 /\ engine_log[1].ok) =>
        /\ engine_log[2].ok
        /\ engine_log[2].after = engine_log[1].after

\* C15, for the diffs git takes at their place: a diff with its file headers
\* whose hunk changes the whole file, applied by git the first time, is
\* found already applied the second time.
C15_ApplyTwiceByGit ==
    (/\ Len(engine_log) >= 2
     /\ ~prefer_fallback
     /\ ForwardApplies(engine_log[1].before, diff_in)
     /\ ~ReverseApplies(engine_log[1].before, diff_in)) =>
        /\ engine_log[1].ok /\ engine_log[1].status = "applied"
        /\ engine_log[2].ok /\ engine_log[2].status = "already_applied"
        /\ engine_log[2].after = engine_log[1].after

\* C16: a diff whose old lines (context and removals) occur nowhere in the
\* file is not applied, unless its new lines are there already: the call
\* returns ok = false and the file is not written.
C16_MismatchNeverApplied ==
    (/\ Len(engine_log) >= 1
     /\ ~Occurs(engine_log[1].before, OldSide(diff_in))
     /\ ~Occurs(engine_log[1].before, NewSide(diff_in))) =>
        /\ ~engine_log[1].ok
        /\ engine_log[1].after = engine_log[1].before

\* C16, for the hunk walk alone: where the single-hunk replacement does not
\* come in (the file's length differs from the hunk's old count), a diff
\* whose old lines occur nowhere in the file is never applied.
C16_WalkRejectsMismatch ==
    (/\ Len(engine_log) >= 1
     /\ ~Occurs(engine_log[1].before, OldSide(diff_in))
     /\ ~Occurs(engine_log[1].before, NewSide(diff_in))
     /\ Len(engine_log[1].before) # Len(OldSide(diff_in))) =>
        /\ ~engine_log[1].ok
        /\ engine_log[1].after = engine_log[1].before

\* The approved value is one the handler is documented to recognise as a
\* yes: true, 1, or one of the affirmative words in any case, with blanks
\* around it.
Affirmative(value) ==
    \/ value.type = "bool" /\ value.val
    \/ value.type = "int" /\ value.val = 1
    \/ value.type = "str" /\ Lower(Strip(value.val)) \in AFFIRMATIVE

\* C17: request_approval returns true only for an HTTP 200 answer whose body
\* is a JSON object with an affirmative approved value; for every other
\* outcome it returns false, and it never raises.
C17_FailClosed ==
    webhook_answer # NoAnswer =>
        /\ webhook_answer # "raise"
        /\ webhook_answer = "true" <=>
             /\ webhook_response.net = "ok"
             /\ webhook_response.status_code = 200
             /\ webhook_response.body.json = "object"
             /\ Affirmative(webhook_response.body.approved)

\* C17, for the bodies that are JSON objects, and for every failure before
\* the body is read: the answer is true for an affirmative value and false
\* otherwise.
C17_FailClosedOnObjects ==
    (/\ webhook_answer # NoAnswer
     /\ \/ webhook_response.net # "ok"
        \/ webhook_response.status_code # 200
        \/ webhook_response.body.json \in {"object", "unparsable"}) =>
        /\ webhook_answer # "raise"
        /\ webhook_answer = "true" <=>
             /\ webhook_response.net = "ok"
             /\ webhook_response.status_code = 200
             /\ webhook_response.body.json = "object"
             /\ Affirmative(webhook_response.body.approved)

\* The proposals of the input, after _flatten_or_fallback
PollinationInput ==
    LET flat == pollinate_in.flat IN
    IF flat # << >> THEN {flat[k] : k \in 1..Len(flat)}
    ELSE {pollinate_in.base[k] : k \in 1..Len(pollinate_in.base)}

SharesFile(i, j) ==
    \E f \in FileSet(i) : f \in FileSet(j)

\* i and j are in one connected component of the file-overlap graph over S:
\* a path of proposals of S leads from one to the other.
Connected(S, i, j) ==
    \E n \in 1..Cardinality(S) : \E path \in [1..n -> S] :
        /\ path[1] = i
        /\ path[n] = j
        /\ \A k \in 1..(n - 1) : SharesFile(path[k], path[k + 1])

\* C18: every returned proposal is one of the input, every proposal of the
\* input is, in the file-overlap graph over the input, connected to exactly
\* one returned proposal (itself or its duplicate included), and no two
\* returned proposals touch a common file.
C18_OnePerComponent ==
    pollinate_out # NotPollinated =>
        LET out == pollinate_out
            S == PollinationInput
        IN  /\ \A k \in 1..Len(out) : out[k] \in S
            /\ \A k, l \in 1..Len(out) : k # l => out[k] # out[l]
            /\ \A i \in S :
                 Cardinality({k \in 1..Len(out) : Connected(S, i, out[k])}) = 1
            /\ \A k, l \in 1..Len(out) :
                 k # l => ~SharesFile(out[k], out[l])

\* Three proposals in a chain, the first and the last sharing no file: one
\* of them is returned.
C18_Witness ==
    /\ pollinate_out # NotPollinated
    /\ PollinationInput = {1, 2, 4}
    /\ ~SharesFile(1, 4)
    /\ Len(pollinate_out) = 1

\* Two proposals apart and one that overlaps with one of them: two are
\* returned, the better first.
C18_WitnessApart ==
    /\ pollinate_out # NotPollinated
    /\ PollinationInput = {1, 3, 5}
    /\ pollinate_out = << 3, 5 >>

\* A proposal and its duplicate of another risk level: the first of them in
\* the input is the one that can be returned.
C18_WitnessDuplicate ==
    /\ pollinate_out # NotPollinated
    /\ pollinate_in.flat = << 1, 5 >>
    /\ pollinate_out = << 1 >>

\* C19: every proposal propose returns has the agent's own name in its
\* agent field.
C19_AgentFieldIsVariant ==
    parse_out # NotParsed =>
        \A k \in 1..Len(parse_out.agents) : parse_out.agents[k] = parse_agent

\* C19, for the items without an "agent" key: the proposal gets the name of
\* the agent's class.
C19_DefaultAgentField ==
    (/\ parse_out # NotParsed
     /\ \A k \in 1..Len(parse_content.items) :
          /\ parse_content.items[k].kind = "object"
          /\ parse_content.items[k].agent = "absent") =>
        \A k \in 1..Len(parse_out.agents) : parse_out.agents[k] = parse_agent

\* C20: run does not raise because the program is missing: a call that
\* started no process returns a result.
C20_MissingProgramReturns ==
    ~sandbox_result.spawned => sandbox_result.kind # "raised"

\* C20, for the container mode: a call raises only after it started a
\* process (which then ran into the timeout).
C20_ContainerMode127 ==
    (~sandbox_runner.stub /\ sandbox_result.kind = "raised") => sandbox_result.spawned

\* C21 (as stated): chat_completion makes at most retry_max attempts, returns
\* on the first 200, makes a further attempt only after a 422, 503 or 504
\* response or a network or timeout error, and then after a delay that
\* grows from one attempt to the next.
C21_RetryOnlyAfterListed ==
    /\ Len(kimi_log) <= kimi_retry_max
    /\ \A i \in 1..Len(kimi_log) :
         i < Len(kimi_log) =>
           /\ \/ kimi_log[i].kind \in {"network", "timeout"}
              \/ kimi_log[i].code \in {422, 503, 504}
           /\ kimi_log[i].slept > 0
           /\ i > 1 => kimi_log[i].slept > kimi_log[i - 1].slept

\* C21, the part the client keeps: the call ends, after at most retry_max
\* attempts, and it returns exactly when its last response was a 200.
C21_Bounded ==
    /\ Len(kimi_log) <= kimi_retry_max
    /\ kimi_state = "returned" <=>
         (kimi_log # << >> /\ kimi_log[Len(kimi_log)].kind = "status"
                           /\ kimi_log[Len(kimi_log)].code = 200)
    /\ kimi_state = "running" => kimi_attempt = Len(kimi_log)

\* C21: a 422 response is not retried.
C21_UnprocessableRaises ==
    \A i \in 1..Len(kimi_log) :
        (kimi_log[i].kind = "status" /\ kimi_log[i].code = 422) =>
            i = Len(kimi_log) /\ kimi_state = "raised"

\* The set of files a proposal of the pool touches.
TouchedFiles(id) ==
    LET f == ProposalById(id).files_touched IN { f[i] : i \in 1..Len(f) }

\* C22 (as stated): the list a cycle hands to its apply stage holds no two
\* proposals whose files_touched intersect, and no proposal twice.
C22_HandedListDisjoint ==
    \A c \in Cycles :
        pc[c] \in {"gate", "rgate"} =>
            \A i, j \in 1..Len(queue[c]) :
                i # j => /\ queue[c][i] # queue[c][j]
                         /\ TouchedFiles(queue[c][i]) \cap TouchedFiles(queue[c][j]) = {}

\* C22, what _cross_pollinate does instead: with the default agents the
\* list handed on holds exactly the proposals the agents returned.
C22_HandedListIsInput ==
    \A c \in Cycles :
        (pc[c] \in {"gate", "rgate"} /\ applied[c] = << >> /\ failed[c] = << >>
           /\ rcands[c] = << >>)
          => { queue[c][i] : i \in 1..Len(queue[c]) }
               = { proposals[c][i] : i \in 1..Len(proposals[c]) }

\* C23 (as stated): in both apply modes a proposal is patched without an
\* approval request only if its assessment marks it auto_apply_eligible.
C23_PatchedOnlyIfEligible ==
    \A c \in Cycles, id \in ProposalIds :
        ("patch" \in acts[c][id] /\ "approval_request" \notin acts[c][id])
            => auto_apply_eligible(ProposalById(id))

\* C23, what the loops test: a proposal is patched without an approval
\* request only if its assessment has no risk factor.
C23_PatchedOnlyIfNoFactor ==
    \A c \in Cycles, id \in ProposalIds :
        ("patch" \in acts[c][id] /\ "approval_request" \notin acts[c][id])
            => ~requires_approval(ProposalById(id))

\* C23, under the default risk policy, where every level is in one of the
\* two lists.
C23_DefaultPolicy ==
    risk_policy = DefaultPolicy => C23_PatchedOnlyIfEligible

\* C24 (as stated): in direct mode no proposal is patched while the
\* kill-switch condition holds on the outcomes recorded so far.
C24_NoPatchOnceTripped ==
    \A c \in Cycles :
        pc[c] = "patch" =>
            ~KillSwitchTripped(cfg.kill_switch, verify_outcomes, apply_outcomes)

\* C24, what the code does: the kill-switch fails either every proposal of
\* a cycle or none.
C24_AllOrNothing ==
    \A c \in Cycles :
        (\E i \in 1..Len(failed[c]) : failed[c][i][2] = "auto_apply_disabled")
            => /\ applied[c] = << >>
               /\ acts[c] = NoActs
               /\ \A i \in 1..Len(failed[c]) : failed[c][i][2] = "auto_apply_disabled"

\* The changes of proposal `id` are in the main worktree, staged or committed.
Present(id) == id \in repo.staged \cup repo.committed

\* C25 (as stated): at the end of a direct-mode cycle the changes of every
\* proposal reported in applied are present in the main worktree.
C25_AppliedArePresent ==
    \A c \in Cycles :
        (~cfg.review /\ pc[c] = "done") =>
            \A i \in 1..Len(applied[c]) : Present(applied[c][i])

\* C25, where it holds: when every applied proposal is committed, or when
\* the clean gate stops the cycle after the first uncommitted one.
C25_PresentWhenCommittedOrGated ==
    \A c \in Cycles :
        (~cfg.review /\ pc[c] = "done"
           /\ (cfg.commit_on_success \/ cfg.require_clean)) =>
            \A i \in 1..Len(applied[c]) : Present(applied[c][i])

\* C26 (as stated): with require_clean_before_apply, apply_patch is never
\* called on a main worktree that is dirty: the check and the patch are one
\* step under write_lock.
C26_PatchOnCleanTree ==
    \A c \in Cycles :
        (cfg.require_clean /\ pc[c] = "patch") => git_is_clean(repo)

\* C26, what the lock does cover: apply_patch, verification, commit and
\* rollback of one proposal run with write_lock held by their cycle.
C26_PatchUnderLock ==
    \A c \in Cycles :
        pc[c] \in {"patch", "verify", "rollback_verify", "rollback_commit"}
            => write_lock = c

\* The number of times `id` is reported in applied or failed by cycle c.
Reported(c, id) ==
    Cardinality({ i \in 1..Len(applied[c]) : applied[c][i] = id })
      + Cardinality({ i \in 1..Len(failed[c]) : failed[c][i][1] = id })

\* C27 (as stated): in a cycle that ends with status success every proposal
\* the agents returned is reported exactly once, in applied or in failed.
C27_EachReportedOnce ==
    \A c \in Cycles :
        (pc[c] = "done" /\ status[c] = "success") =>
            \A i \in 1..Len(proposals[c]) : Reported(c, proposals[c][i]) = 1

\* C27, when every proposal carries the class name of an agent that is
\* enabled once.
C27_OnceWhenAgentsMatch ==
    \A c \in Cycles :
        (pc[c] = "done" /\ status[c] = "success"
           /\ \A i \in 1..Len(proposals[c]) :
                Cardinality({ k \in 1..Len(agents_enabled) :
                    agents_enabled[k] = ProposalById(proposals[c][i]).agent }) = 1) =>
            \A i \in 1..Len(proposals[c]) : Reported(c, proposals[c][i]) = 1

\* C28 (as stated): every successful apply-and-verify of a proposal in
\* direct mode resets the backoff, commit or no commit.
C28_SuccessResetsBackoff ==
    [][\A c \in Cycles :
         (pc[c] = "verify" /\ Len(applied'[c]) = Len(applied[c]) + 1)
            => (backoff_seconds' = 0 /\ backoff_until' = 0)]_vars

\* C28, what the code does: the backoff is reset exactly when a commit was
\* created, and is left as it was by every other successful proposal.
C28_ResetOnlyOnCommit ==
    [][\A c \in Cycles :
         (pc[c] = "verify" /\ Len(applied'[c]) = Len(applied[c]) + 1)
            => IF cfg.commit_on_success /\ git_has_staged_changes(repo)
               THEN backoff_seconds' = 0 /\ backoff_until' = 0
               ELSE UNCHANGED << backoff_seconds, backoff_until >>]_vars

\* A step of cycle c that updates the backoff: the cycle ends with an
\* exception, or its current proposal fails to patch or to verify.
BackoffUpdateStep(c) ==
    \/ status[c] # "error" /\ status'[c] = "error"
    \/ /\ Len(failed'[c]) = Len(failed[c]) + 1
       /\ failed'[c][Len(failed'[c])][2] \in {"patch_failed", "verification_failed"}

\* Every backoff update follows min(max, max(base, 2 * previous)) and sets
\* backoff_until from the new value.
C29_UpdateRule ==
    [][\A c \in Cycles :
         BackoffUpdateStep(c) =>
            /\ backoff_seconds' =
                 Min(control_plane.backoff_max_seconds,
                     Max(control_plane.backoff_base_seconds, 2 * backoff_seconds))
            /\ backoff_seconds' # 0 => backoff_until' = now + backoff_seconds']_vars

\* backoff_seconds goes down only when a commit resets it to zero.
MonotoneStep ==
    backoff_seconds' < backoff_seconds =>
        /\ backoff_seconds' = 0 /\ backoff_until' = 0
        /\ \E c \in Cycles : queue[c] # << >> /\ "commit" \in acts'[c][Cur(c)]

BackoffInRange ==
    0 <= backoff_seconds /\ backoff_seconds <= control_plane.backoff_max_seconds

\* C29 (amended): every backoff update follows the rule; when
\* backoff_max_seconds is not negative, 0 <= backoff_seconds <=
\* backoff_max_seconds in every reachable state and backoff_seconds never
\* decreases between two resets.
C29_BackoffBounded ==
    /\ C29_UpdateRule
    /\ [](control_plane.backoff_max_seconds >= 0 => BackoffInRange)
    /\ [][control_plane.backoff_max_seconds >= 0 => MonotoneStep]_vars

\* C29 (as stated): the same for every setting.
C29_Original ==
    /\ C29_UpdateRule
    /\ []BackoffInRange
    /\ [][MonotoneStep]_vars

\* A patch failure and then a verification failure, later on the clock,
\* took the backoff to 30 and then to the cap of 50 instead of 60.
C29_Witness ==
    /\ control_plane = [backoff_base_seconds |-> 30, backoff_max_seconds |-> 50]
    /\ backoff_seconds = 50
    /\ now > 0 /\ backoff_until = now + 50
    /\ apply_outcomes = <<FALSE, TRUE>>
    /\ verify_outcomes = <<FALSE>>

\* s is t with elements added at its end, or t itself.
Extends(s, t) == Len(s) >= Len(t) /\ SubSeq(s, 1, Len(t)) = t

\* C30: while now < backoff_until the loop takes no event from the queue
\* and starts handling none, and the queue only grows; every event is
\* handed to _handle_event from the head of the queue, after the handling
\* of the one before it has returned, so the events handled followed by the
\* events waiting are always the accepted events in the order of their
\* enqueueing.
C30_BackoffHoldsEvents ==
    [][/\ Extends(handled_events' \o event_queue', handled_events \o event_queue)
       /\ Extends(handled_events', handled_events)
       /\ now < backoff_until =>
            /\ handled_events' = handled_events
            /\ Extends(event_queue', event_queue)
       /\ handled_events' # handled_events =>
            /\ sup = "waiting" /\ sup' = "handling"
            /\ Len(handled_events') = Len(handled_events) + 1
            /\ Len(history) = Len(handled_events)
            /\ now >= backoff_until]_vars

\* A file change accepted and enqueued during the backoff that followed a
\* failed cycle was handled after the backoff had elapsed, as the second
\* event.
C30_Witness ==
    /\ handled_events = <<PeriodicScanEvent, FileChange(PathA)>>
    /\ history = <<"error">>
    /\ backoff_seconds > 0
    /\ last_event_by_path[PathA] > backoff_until - backoff_seconds
    /\ last_event_by_path[PathA] < backoff_until
    /\ now >= backoff_until

\* An event waits in the queue while the loop backs off.
C30_WitnessWaiting ==
    /\ sup = "top" /\ running
    /\ now < backoff_until
    /\ event_queue # << >>
    /\ history # << >>

\* The cycle_completed records among the records of cycle c.
Completions(c) ==
    { i \in 1..Len(telemetry[c]) : telemetry[c][i].type = "cycle_completed" }

\* C31 (as stated): a cycle that has returned logged cycle_started and
\* exactly one cycle_completed, whose status is the status it returned.
C31_OneCompletionPerCycle ==
    \A c \in Cycles :
        pc[c] = "done" =>
            /\ telemetry[c][1] = CycleStarted
            /\ Cardinality(Completions(c)) = 1
            /\ \A i \in Completions(c) : telemetry[c][i].status = status[c]

\* C31, for every return but the throttled one.
C31_CompletionUnlessThrottled ==
    \A c \in Cycles :
        (pc[c] = "done" /\ status[c] # "throttled") =>
            /\ telemetry[c][1] = CycleStarted
            /\ Cardinality(Completions(c)) = 1
            /\ \A i \in Completions(c) : telemetry[c][i].status = status[c]

\* C31: the throttled return logs control_plane_throttled and no
\* cycle_completed.
C31_ThrottledLogsNoCompletion ==
    \A c \in Cycles :
        (pc[c] = "done" /\ status[c] = "throttled") =>
            telemetry[c] = <<CycleStarted, ControlPlaneThrottled>>

\* The kill-switch condition of _apply_proposals, on the outcome windows as
\* they are now.
Tripped == KillSwitchTripped(cfg.kill_switch, verify_outcomes, apply_outcomes)

\* Cycle c is at the start of its apply stage.
AtApplyStart(c) == pc[c] = "refine"

\* C32: in a coordinator whose cycles run one after the other, once the
\* kill-switch condition holds at the start of an apply stage it holds at the
\* start of every later apply stage, and the tripped cycle appends nothing to
\* apply_outcomes or verify_outcomes.
C32_TrippedStaysTripped ==
    /\ [](\A c \in Cycles :
            (AtApplyStart(c) /\ Tripped) =>
                [](\A d \in Cycles : AtApplyStart(d) => Tripped))
    /\ [][\A c \in Cycles :
            (AtApplyStart(c) /\ Tripped /\ pc'[c] # pc[c]) =>
                UNCHANGED << apply_outcomes, verify_outcomes >>]_vars

\* Two calls in a row have failed all their proposals with
\* auto_apply_disabled.
C32_Witness ==
    \A c \in Cycles :
        /\ pc[c] = "done"
        /\ failed[c] # << >>
        /\ \A i \in 1..Len(failed[c]) : failed[c][i][2] = "auto_apply_disabled"

\* C33 (as stated): when every proposal applies cleanly and then fails
\* verification, some cycle finds the kill-switch tripped at the start of
\* its apply stage.
C33_AllFailingTrips == <>(\E c \in Cycles : AtApplyStart(c) /\ Tripped)

\* C33: each such proposal appends True to _apply_outcomes and False to
\* _verify_outcomes, so the failures are exactly half of the recorded
\* outcomes and the rate never exceeds the threshold of one half.
C33_RateStaysAtHalf ==
    /\ Len(verify_outcomes) <= Len(apply_outcomes)
    /\ \A i \in 1..Len(verify_outcomes) : ~verify_outcomes[i]
    /\ \A i \in 1..Len(apply_outcomes) : apply_outcomes[i]
    /\ ~Tripped

\* C33: the windows are full of such outcomes and the calls are used up.
C33_WindowsFull ==
    /\ cyclesLeft = 0
    /\ \A c \in Cycles : pc[c] = "done"
    /\ Len(verify_outcomes) = FailureRateWindow
    /\ Failures(verify_outcomes \o apply_outcomes) >= MinFailures

\* Two candidates of one cycle share no worktree directory, branch or patch
\* file.
DistinctCandidates(c) ==
    \A j, k \in 1..Len(rcands[c]) :
        j # k => /\ rcands[c][j].worktree_path # rcands[c][k].worktree_path
                 /\ rcands[c][j].branch # rcands[c][k].branch
                 /\ rcands[c][j].patch_path # rcands[c][k].patch_path

C35_WorktreesRemoved ==
    \A c \in Cycles :
        (cfg.review /\ ~cfg.keep_worktrees /\ pc[c] = "done") => rcands[c] = << >>

\* C35: the worktrees are removed whenever the cycle did not end in error.
C35_RemovedUnlessError ==
    \A c \in Cycles :
        (cfg.review /\ ~cfg.keep_worktrees /\ pc[c] = "done" /\ status[c] # "error")
            => rcands[c] = << >>

\* C35: a worker that raised had its worktree removed with the others.
C35_WorkerRaised ==
    \E c \in Cycles :
        /\ cfg.review /\ ~cfg.keep_worktrees /\ pc[c] = "done"
        /\ \E i \in 1..Len(failed[c]) : failed[c][i][2] = "review_processing_failed"
        /\ rcands[c] = << >>

\* The proposals cycle c reported applied whose patch changed the tree.
StagedBy(c) == { i \in 1..Len(applied[c]) : applied[c][i] \notin repo.committed }

\* No cycle is between its gate and the end of its current proposal.
NoProposalInHand ==
    \A c \in Cycles : pc[c] \in {"idle", "propose", "refine", "gate", "done"}

\* C36 (as stated): with require_clean on and commit_on_success off, a cycle
\* in direct mode applies at most one proposal.
C36_OneAppliedPerCycle == \A c \in Cycles : Len(applied[c]) <= 1

\* C36: at most one proposal per cycle is applied with a change to the tree;
\* its change stays staged, and from then on the gate fails every proposal it
\* sees without patching, with dirty_worktree (git_status_failed when git
\* status fails).  A proposal whose change is already in HEAD is reported
\* applied without staging anything.
C36_StagedChangeBlocks ==
    /\ [](\A c \in Cycles : Cardinality(StagedBy(c)) <= 1)
    /\ [][(git_has_staged_changes(repo) /\ NoProposalInHand) =>
            /\ repo' = repo
            /\ NoProposalInHand'
            /\ \A c \in Cycles :
                 (pc[c] = "gate" /\ queue[c] # << >> /\ queue'[c] # queue[c]) =>
                    \E r \in {"dirty_worktree", "git_status_failed"} :
                        /\ failed'[c] = Append(failed[c], <<Cur(c), r>>)
                        /\ applied'[c] = applied[c]]_vars
    /\ [][\A c \in Cycles :
            (Len(applied'[c]) > Len(applied[c]) /\ Cur(c) \notin repo.committed) =>
                git_has_staged_changes(repo')]_vars

\* One cycle applied a proposal and failed the next one with dirty_worktree,
\* and the cycle after it failed all its proposals with dirty_worktree.
C36_Witness ==
    \E c, d \in Cycles :
        /\ c # d /\ pc[c] = "done" /\ pc[d] = "done"
        /\ Len(applied[c]) = 1 /\ StagedBy(c) = {1}
        /\ \E i \in 1..Len(failed[c]) : failed[c][i][2] = "dirty_worktree"
        /\ applied[d] = << >> /\ Len(failed[d]) = 2
        /\ \A i \in 1..Len(failed[d]) : failed[d][i][2] = "dirty_worktree"

\* The place of a step in the order of the engine: the candidates in turn,
\* for each the strip levels in turn, for each reverse check, check, apply
\* and three-way merge; then the fallback on that candidate.
StepRank(s) ==
    (s.candidate - 1) * 9
      + (IF s.kind = "fallback" THEN 9
         ELSE (IF s.strip = "primary" THEN 0 ELSE 4)
              + (CASE s.kind = "reverse_check" -> 1
                   [] s.kind = "check" -> 2
                   [] s.kind = "apply" -> 3
                   [] OTHER -> 4))

TraceSteps == strategy_trace.steps

\* The git steps of the candidates there are.
GitSteps ==
    { s \in EngineSteps : /\ s.kind \in {"reverse_check", "check", "three_way"}
                    /\ (s.candidate = 2 => git_outcome.fixed) }

\* C37 (as stated): the in-process fallback runs only after every git
\* strategy has failed for every candidate diff and both strip levels.
C37_FallbackAfterAllGit ==
    ~prefer_fallback =>
        \A i \in 1..Len(TraceSteps) :
            TraceSteps[i].kind = "fallback" =>
                \A s \in GitSteps :
                    /\ \E j \in 1..(i - 1) : TraceSteps[j] = s
                    /\ s.kind # "check" => s \notin git_outcome.good

\* C37: the steps run in the order of the engine and stop at the first one
\* that succeeds, the check aside, which is followed by the apply.
C37_FixedOrderFirstSuccess ==
    ~prefer_fallback =>
        /\ \A i, j \in 1..Len(TraceSteps) :
             i < j => StepRank(TraceSteps[i]) < StepRank(TraceSteps[j])
        /\ \A i \in 1..(Len(TraceSteps) - 1) :
             TraceSteps[i].kind # "check" => TraceSteps[i] \notin git_outcome.good
        /\ (strategy_trace # NotRun) =>
             (strategy_trace.ok <=> TraceSteps[Len(TraceSteps)] \in git_outcome.good)

\* C37: the fallback on the original diff has run, and failed, before the
\* first git step on the diff with the fixed hunk counts.
C37_FallbackBeforeFixed ==
    /\ ~prefer_fallback
    /\ \E i, j \in 1..Len(TraceSteps) :
         /\ i < j
         /\ TraceSteps[i] = Step(1, "none", "fallback")
         /\ TraceSteps[j] = Step(2, "primary", "reverse_check")

\* C38 (as stated): the proposals advanced_cross_pollinate returns are in
\* the order of the cluster ranking: higher score first, ties by smaller
\* |estimated_loc_change|, then by agent and title.
C38_OneOrder ==
    pollinate_out # NotPollinated =>
        \A i, j \in 1..Len(pollinate_out) :
            i < j => ~RankedBefore(Pollinated(pollinate_out[j]),
                                   Pollinated(pollinate_out[i]))

\* C38: the last round sorts by score, agent and title only.
C38_FinalOrder ==
    pollinate_out # NotPollinated =>
        \A i, j \in 1..Len(pollinate_out) :
            i < j => ~FinalBefore(Pollinated(pollinate_out[j]),
                                  Pollinated(pollinate_out[i]))

\* C38: two winners of equal score come out with the larger change first.
C38_LargerChangeFirst ==
    /\ pollinate_out # NotPollinated
    /\ \E i, j \in 1..Len(pollinate_out) :
         LET p == Pollinated(pollinate_out[i])
             q == Pollinated(pollinate_out[j])
         IN  /\ i < j
             /\ proposal_score(p) = proposal_score(q)
             /\ Abs(p.estimated_loc_change) > Abs(q.estimated_loc_change)

\* start() is in its main loop and has not been told to stop.
LoopRunning == sup \in {"top", "waiting", "handling"} /\ running

\* C39 (as stated): while start() is running the periodic scan task is
\* alive, so that a periodic_scan event is offered to the queue after every
\* check interval, with the filesystem watcher enabled or not.
C39_ScansWhileRunning == LoopRunning => scan = "sleeping"

\* C39: with monitoring.enabled the task is alive while start() is running,
\* and each of its rounds puts a periodic_scan event unless the queue is full.
C39_ScansWhenMonitoring ==
    /\ []((mon.enabled /\ LoopRunning) => scan = "sleeping")
    /\ [][(scan = "sleeping" /\ event_queue' # event_queue /\ Len(event_queue') > Len(event_queue)
             /\ pending_puts' = pending_puts) =>
            /\ ~QueueFull(event_queue, mon.max_queue_size)
            /\ event_queue' = Append(event_queue, PeriodicScanEvent)]_vars

\* C39: with monitoring.enabled off the loop waits on a queue nothing is
\* ever put into.
C39_NoScanTask ==
    /\ ~mon.enabled
    /\ LoopRunning /\ sup = "waiting"
    /\ scan = "off"
    /\ event_queue = << >> /\ handled_events = << >> /\ pending_puts = << >>

\* C40 (as stated): once running is false no further event is dequeued.
C40_NoDequeueAfterStop == [][~running => handled_events' = handled_events]_vars

\* C40: after running is false only the wait on event_queue.get() that was
\* already under way can still return an event; the loop then exits at its
\* next iteration, and the periodic task is cancelled as start() returns.
C40_OnlyPendingGet ==
    /\ [][(~running /\ sup # "waiting") => handled_events' = handled_events]_vars
    /\ [][(~running /\ sup = "top") => sup' \in {"top", "returned"}]_vars
    /\ [](sup = "returned" => (~running /\ scan = "off"))

\* C40: start() has returned after a stop.
C40_Returned == sup = "returned" /\ handled_events # << >>

====
